---- MODULE Spec2Model ----
(***************************************************************************)
(* Model of cygnus-backend-api: the command orchestrator (the command      *)
(* queue service: enqueueCommand, processQueue, runJob, pollForStatus,     *)
(* publishResult and matchesExpected), the event broadcaster               *)
(* (eventStream.ts) and the vendor service with its client (bghService.ts, *)
(* client.ts).  Each component has its own specification: Spec and         *)
(* FairSpec for the queue, StreamSpec for the broadcaster, ClientSpec for   *)
(* the vendor service.                                                     *)
(*                                                                         *)
(* Node runs every callback to its next await without preemption, so each  *)
(* action below is one such run: from the resumption of a suspended        *)
(* promise (or an HTTP request calling enqueueCommand) to the next         *)
(* suspension.  The vendor (bghService) is the environment: each of its    *)
(* calls either resolves or rejects, chosen nondeterministically.          *)
(*                                                                         *)
(* Temperatures are integers in tenths of a degree, so that Math.round is  *)
(* modelled by what it does.                                               *)
(***************************************************************************)
EXTENDS Integers, Sequences, FiniteSets, TLC

(***************************************************************************)
(* Bounds of the model.                                                    *)
(***************************************************************************)
\* Number of enqueueCommand calls explored.
MaxJobs == 3

\* Number of registerClient calls explored, and number of broadcastEvent
\* calls and heartbeat callbacks explored, taken together.
MaxClients == 3

MaxWrites == 1

\* Number of calls of the vendor service explored.
MaxCalls == 2

\* Number of items of the Values array of an endpoint, and number of
\* endpoints of a data packet, explored.
MaxValues == 2

MaxEndpoints == 2

\* Number of HTTP requests handled by the controller explored.
MaxRequests == 1

\* Number of sessions created, and number of steps of the clock, explored.
MaxSessions == 2

MaxTicks == 3

(***************************************************************************)
(* Program constants and values.                                           *)
(***************************************************************************)
MAX_ATTEMPTS == 6

\* JavaScript null (a missing reading of a DeviceStatus field).
Null == -1000
\* JavaScript undefined (a key that is not in a lookup table).
Undefined == -2000

NoFan == "none"

FAN_MODES == [low |-> 1, mid |-> 2, high |-> 3, auto |-> 254, no_change |-> 255]

HVAC_MODES ==
  [off |-> 0, cool |-> 1, heat |-> 2, dry |-> 3, fan_only |-> 4,
   auto |-> 254, no_change |-> 255]

\* lastDevice = null in pollForStatus.
NoDevice == [none |-> TRUE]

\* The message of the error pollForStatus throws when no snapshot was obtained.
StatusUnavailable == "No se pudo obtener el estado actualizado del dispositivo"

\* The messages of the errors the vendor service can reject setDeviceMode with.
SetModeErrors == {"UPSTREAM_ERROR"}

\* The message of an error thrown by the job's logger (an Error instance).
LoggerError == "logger failure"

(***************************************************************************)
(* Inputs explored: payloads handed to enqueueCommand and the snapshots    *)
(* the vendor may report.                                                  *)
(***************************************************************************)
Payloads ==
  { [mode |-> "cool", targetTemperature |-> 210, fan |-> "high"] }

\* One snapshot that matches the payload (21.4 rounds to 21), one whose
\* mode differs and one without a target temperature.
Snapshots ==
  { [modeId |-> 1, fanSpeed |-> 3, targetTemperature |-> 214],
    [modeId |-> 2, fanSpeed |-> 3, targetTemperature |-> 210],
    [modeId |-> 1, fanSpeed |-> 3, targetTemperature |-> Null] }

(***************************************************************************)
(* matchesExpected                                                         *)
(***************************************************************************)
\* Mutant: the fraction is cut off.
Round_Truncates(t) == t \div 10

\* Math.round on a value in tenths: floor(x + 0.5).
Round(t) == (t + 5) \div 10

\* The keys an object literal inherits from Object.prototype (some of them)
\* and the value a lookup of one of them gives: a function, equal to no
\* number.
ObjectPrototype == {"constructor", "toString", "valueOf", "hasOwnProperty"}

Inherited == -3000

\* key in table: own and inherited keys alike.
In(key, table) == key \in DOMAIN table \cup ObjectPrototype

\* table[key]
Lookup(table, key) ==
  IF key \in DOMAIN table THEN table[key]
  ELSE IF key \in ObjectPrototype THEN Inherited
  ELSE Undefined

matchesExpected(device, payload) ==
  LET expectedMode == Lookup(HVAC_MODES, payload.mode)
      expectedFan == IF payload.fan # NoFan THEN Lookup(FAN_MODES, payload.fan)
                     ELSE Undefined
      modeMatches == expectedMode = Undefined \/ device.modeId = expectedMode
      fanMatches == expectedFan = Undefined \/ device.fanSpeed = expectedFan
      temperatureMatches ==
        IF device.targetTemperature = Null THEN FALSE
        ELSE Round(device.targetTemperature) = Round(payload.targetTemperature)
  IN  modeMatches /\ fanMatches /\ temperatureMatches

(***************************************************************************)
(* State.                                                                  *)
(***************************************************************************)
\* The state of the command queue (the command queue service).
VARIABLES
  queue,         \* const queue: CommandJob[]  (job ids)
  isProcessing,  \* let isProcessing
  jobs,          \* the jobs created so far; a job's id is its index
  acks,          \* per job: what enqueueCommand returned and logged
  workers,       \* the processQueue() invocations that are suspended at an
                 \* await, each with its local job and the locals of the
                 \* runJob / pollForStatus it is in
  log            \* the history of the run.  log.order: the dequeues, the
                 \* setDeviceMode calls and the events handed to
                 \* broadcastEvent, in order, each with its job.
                 \* log.detail[j]: the number of vendor calls and delays
                 \* made for job j, the events published for it, and what
                 \* the vendor answered (how setDeviceMode ended, the number
                 \* of status fetches answered, the index of the first one
                 \* that matched, the last snapshot returned and whether
                 \* the latest fetch was rejected).  The detail of a job
                 \* whose processing has ended is dropped at the first
                 \* dequeue made in a later step; log.order is kept for
                 \* ever.

\* The state of the event broadcaster (eventStream.ts).
VARIABLES
  clients,       \* const clients: Map<string, SSEClient>: the client ids, in
                 \* insertion order (the order the Map iterates in); the id
                 \* of a client is its index in streams
  heartbeat,     \* the client ids whose heartbeat interval timer is active
  streams,       \* per client created, its res: the frames written to it
                 \* and the number of times res.end() was called
  listening,     \* the client ids whose req "close" listener is registered
                 \* and has not fired
  writes,        \* the number of broadcastEvent calls run and heartbeat
                 \* frames written
  op             \* the broadcaster operation that ran last: its name, its
                 \* client, the clients whose write threw in it, whether a
                 \* res.end() threw in it and whether it threw to its caller

\* The state of the vendor service and its client (bghService.ts, client.ts).
VARIABLES
  clientPromise, \* let clientPromise (bghService.ts)
  token,         \* BGHClient.token
  tokenPromise,  \* BGHClient.tokenPromise
  logins,        \* the login requests posted so far, in order, each with
                 \* the service call it was posted in and the number of
                 \* client operations invoked before it
  posts,         \* the other requests posted so far, each with its endpoint
                 \* and the service call it was posted in
  invoked,       \* the number of operations invoked on the BGHClient
  calls          \* the service calls made so far, each with its position
                 \* and, once it has ended, what its caller observed

\* The state of a decoding of a data packet (BGHClient.getDevices) and of
\* a comparison of a snapshot with a payload (matchesExpected).
VARIABLES
  packet,        \* the data packet the vendor answered GetDataPacket with
  devices,       \* whether parseDevices has run on it and the DeviceStatusMap
                 \* it returned: the snapshots, at most one per deviceId
  comparison     \* a snapshot, a payload and what matchesExpected said of
                 \* them ("pending": it has not run)

\* The state of the HTTP controller (bghController.ts).
VARIABLES
  responses      \* the requests handled so far, in order, each with the
                 \* status and the code it was answered with when the handler
                 \* answered it before its first await, and whether it called
                 \* the service

\* The state of the session store (authService.ts) and of the guard of the
\* protected routes (requireAuth.ts).
VARIABLES
  sessions,      \* const sessions: Map<string, Session>
  now,           \* Date.now()
  issued,        \* the number of tokens generateToken has returned
  authOp,        \* the operation of the session store that ran last: its
                 \* name, the token it was called with, the time it ran at
                 \* and the session it returned (NoSession: null or nothing)
  requests       \* the requests that reached the router of the protected
                 \* routes, in order, each with its route, its Cookie header,
                 \* the answer of requireAuth (0 and "": none) and whether
                 \* requireAuth called next()

queueVars == <<queue, isProcessing, jobs, acks, workers, log>>

streamVars == <<clients, heartbeat, streams, listening, writes, op>>

clientVars == <<clientPromise, token, tokenPromise, logins, posts, invoked, calls>>

decoderVars == <<packet, devices, comparison>>

controllerVars == <<responses>>

authVars == <<sessions, now, issued, authOp, requests>>

vars ==
  <<queueVars, streamVars, clientVars, decoderVars, controllerVars, authVars>>

JobIds == 1..Len(jobs)

Completed(j, device, attempts) ==
  [status |-> "completed", job |-> j, device |-> device, error |-> "",
   attempts |-> attempts]

Failed(j, error) ==
  [status |-> "failed", job |-> j, device |-> NoDevice, error |-> error,
   attempts |-> 0]

\* DeviceStatus.toJSON, on the fields of a snapshot the model keeps.
toJSON(device) ==
  [modeId |-> device.modeId, fanSpeed |-> device.fanSpeed,
   targetTemperature |-> device.targetTemperature]

(***************************************************************************)
(* publishResult: the events handed to broadcastEvent for one outcome.  An *)
(* entry keeps the outcome's status and attempts beside the event.         *)
(***************************************************************************)
\* Mutant: the completed branch lacks its return and falls through.
publishResult_FallsThrough(result) ==
  IF result.status = "completed"
  THEN << [event |-> "device-update", job |-> result.job,
           status |-> result.status, attempts |-> result.attempts,
           device |-> toJSON(result.device), message |-> ""],
          [event |-> "command-error", job |-> result.job,
           status |-> result.status, attempts |-> result.attempts,
           device |-> NoDevice, message |-> "undefined"] >>
  ELSE << [event |-> "command-error", job |-> result.job,
           status |-> result.status, attempts |-> result.attempts,
           device |-> NoDevice, message |-> result.error] >>

publishResult(result) ==
  IF result.status = "completed"
  THEN << [event |-> "device-update", job |-> result.job,
           status |-> result.status, attempts |-> result.attempts,
           device |-> toJSON(result.device), message |-> ""] >>
  ELSE << [event |-> "command-error", job |-> result.job,
           status |-> result.status, attempts |-> result.attempts,
           device |-> NoDevice, message |-> result.error] >>

(***************************************************************************)
(* The log.                                                                *)
(***************************************************************************)
NoDetail ==
  [setMode |-> 0, getDeviceStatus |-> 0, delay |-> 0, outcomes |-> << >>,
   vendor |-> [setMode |-> "", answers |-> 0, firstMatch |-> 0,
               last |-> NoDevice, rejected |-> FALSE]]

\* The log h after enqueueCommand created job j.
Created(h, j) ==
  [h EXCEPT !.detail = [x \in DOMAIN @ \cup {j} |->
                          IF x = j THEN NoDetail ELSE @[x]]]

\* The log h after queue.shift() returned job j.  The detail of the jobs
\* whose processing ended before is dropped, but for those in keep.
Dequeued(h, j, keep) ==
  LET taken == {h.order[i][2] : i \in {n \in DOMAIN h.order :
                                          h.order[n][1] = "dequeue"}}
      kept == {x \in DOMAIN h.detail : x = j \/ x \in keep \/ x \notin taken}
  IN  [order |-> Append(h.order, <<"dequeue", j>>),
       detail |-> [x \in kept |-> h.detail[x]]]

\* The log h after setDeviceMode was called for job j.
CalledSetMode(h, j) ==
  [h EXCEPT !.order = Append(@, <<"setMode", j>>), !.detail[j].setMode = @ + 1]

\* The log h after getDeviceStatus was called for job j.
CalledGetDeviceStatus(h, j) == [h EXCEPT !.detail[j].getDeviceStatus = @ + 1]

\* The log h after wait(POLL_DELAY_MS) was called for job j.
CalledWait(h, j) == [h EXCEPT !.detail[j].delay = @ + 1]

\* The log h after the events (of one job j) were handed to broadcastEvent.
Broadcast(h, j, events) ==
  [h EXCEPT !.order = @ \o [i \in 1..Len(events) |-> <<"publish", j>>],
            !.detail[j].outcomes = @ \o events]

\* The log h after the vendor resolved or rejected setDeviceMode for job j.
AnsweredSetMode(h, j, how) == [h EXCEPT !.detail[j].vendor.setMode = how]

\* The log h after the vendor rejected a status fetch of job j.
AnsweredError(h, j) ==
  [h EXCEPT !.detail[j].vendor.answers = @ + 1,
            !.detail[j].vendor.rejected = TRUE]

\* The log h after the vendor answered a status fetch of job j with a
\* snapshot; hit tells whether the snapshot matches the job's payload.
AnsweredSnapshot(h, j, device, hit) ==
  [h EXCEPT !.detail[j].vendor =
     [setMode |-> @.setMode,
      answers |-> @.answers + 1,
      firstMatch |-> IF hit /\ @.firstMatch = 0 THEN @.answers + 1
                     ELSE @.firstMatch,
      last |-> device,
      rejected |-> FALSE]]

(***************************************************************************)
(* processQueue                                                            *)
(***************************************************************************)
\* Mutant: processQueue without its guard.
AlreadyProcessing_NoGuard == FALSE

\* if (isProcessing) return;
AlreadyProcessing == isProcessing

\* Mutant: queue.pop() instead of queue.shift().
Shift_Pop(q) == [job |-> q[Len(q)], rest |-> SubSeq(q, 1, Len(q) - 1)]

\* queue.shift()
Shift(q) == [job |-> Head(q), rest |-> Tail(q)]

\* Mutant: the flag is not reset when the queue is drained.
FlagAfterDrain_Stuck == TRUE

\* isProcessing = false, once the loop has found the queue empty.
FlagAfterDrain == FALSE

\* runJob(j) up to its first await, run from a processQueue() whose other
\* suspended invocations are ws: job.log.child may throw, which rejects the
\* promise runJob returned; otherwise setDeviceMode is called.
RunJobStart(j, ws, h) ==
  IF jobs'[j].logFails
  THEN /\ workers' = ws \cup {[pc |-> "crashed", job |-> j, attempt |-> 0,
                               lastDevice |-> NoDevice]}
       /\ log' = h
  ELSE /\ workers' = ws \cup {[pc |-> "setMode", job |-> j, attempt |-> 0,
                               lastDevice |-> NoDevice]}
       /\ log' = CalledSetMode(h, j)

\* Mutant: an if in place of the while: an invocation runs one job and
\* resets the flag when that job has ended, whatever the queue holds.
Loop_Once(q, flag, ws, h, ended) ==
  IF Len(q) > 0 /\ ended = {}
  THEN /\ queue' = Shift(q).rest
       /\ isProcessing' = flag
       /\ RunJobStart(Shift(q).job, ws,
                      Dequeued(h, Shift(q).job, ended \cup {w.job : w \in ws}))
  ELSE /\ queue' = q
       /\ isProcessing' = FlagAfterDrain
       /\ workers' = ws
       /\ log' = h

\* The while loop of processQueue from its test to the next await, with the
\* queue at q, the flag at flag, the other suspended invocations ws and the
\* log at h; ended holds the job whose runJob has just ended, if any.
Loop(q, flag, ws, h, ended) ==
  IF Len(q) > 0
  THEN /\ queue' = Shift(q).rest
       /\ isProcessing' = flag
       /\ RunJobStart(Shift(q).job, ws,
                      Dequeued(h, Shift(q).job, ended \cup {w.job : w \in ws}))
  ELSE /\ queue' = q
       /\ isProcessing' = FlagAfterDrain
       /\ workers' = ws
       /\ log' = h

(***************************************************************************)
(* enqueueCommand(input): the whole call, the synchronous part of the      *)
(* processQueue() it starts included.                                      *)
(***************************************************************************)
\* Mutant: await processQueue() instead of void processQueue(): a call that
\* starts the worker has not returned when the worker first suspends.
enqueueCommand_AwaitsWorker(payload, logFails) ==
  /\ Len(jobs) < MaxJobs
  /\ LET id == Len(jobs) + 1
         pushed == Append(queue, id)
     IN  /\ jobs' = Append(jobs, [payload |-> payload, logFails |-> logFails])
         /\ IF AlreadyProcessing
            THEN /\ queue' = pushed
                 /\ log' = Created(log, id)
                 /\ acks' = Append(acks, [jobId |-> id, queueDepth |-> Len(pushed),
                                          position |-> Len(pushed)])
                 /\ UNCHANGED <<isProcessing, workers>>
            ELSE /\ Loop(pushed, TRUE, workers, Created(log, id), {})
                 /\ acks' = acks

enqueueCommand(payload, logFails) ==
  /\ Len(jobs) < MaxJobs
  /\ LET id == Len(jobs) + 1
         pushed == Append(queue, id)
     IN  /\ jobs' = Append(jobs, [payload |-> payload, logFails |-> logFails])
         /\ IF AlreadyProcessing
            THEN /\ queue' = pushed
                 /\ log' = Created(log, id)
                 /\ UNCHANGED <<isProcessing, workers>>
            ELSE Loop(pushed, TRUE, workers, Created(log, id), {})
         /\ acks' = Append(acks, [jobId |-> id, queueDepth |-> Len(pushed),
                                  position |-> Len(queue')])

(***************************************************************************)
(* runJob and pollForStatus, one action per resumption of the suspended    *)
(* invocation w.                                                           *)
(***************************************************************************)
\* Mutant: the 0-based loop index is returned as the attempt count.
Matched_OffByOne(device, attempt) == [device |-> device, attempts |-> attempt - 1]

\* The value pollForStatus returns on a match at the given attempt.
Matched(device, attempt) == [device |-> device, attempts |-> attempt]

\* Mutant: only the first snapshot is remembered.
Remember_First(last, device) == IF last = NoDevice THEN device ELSE last

\* lastDevice = device
Remember(last, device) == device

\* Mutant: the null check is missing, so publishResult throws a TypeError
\* on lastDevice.toJSON() and the catch of runJob reports that error.
Exhausted_NoNullCheck(j, lastDevice) ==
  IF lastDevice = NoDevice
  THEN Failed(j, "Cannot read properties of null")
  ELSE Completed(j, lastDevice, MAX_ATTEMPTS)

\* Mutant: the loop counter, left at 7, is returned as the attempt count.
Exhausted_LoopCounter(j, lastDevice) ==
  IF lastDevice = NoDevice
  THEN Failed(j, StatusUnavailable)
  ELSE Completed(j, lastDevice, MAX_ATTEMPTS + 1)

\* The outcome of runJob once the attempts are used up.
Exhausted(j, lastDevice) ==
  IF lastDevice = NoDevice
  THEN Failed(j, StatusUnavailable)
  ELSE Completed(j, lastDevice, MAX_ATTEMPTS)

\* Mutant: the mode-set is tried a second time before the job fails.
SetModeFailure_Retries(h, j, error) ==
  Broadcast(CalledSetMode(h, j), j, publishResult(Failed(j, error)))

\* The catch of runJob after setDeviceMode rejected: what it adds to log h.
SetModeFailure(h, j, error) == Broadcast(h, j, publishResult(Failed(j, error)))

\* setDeviceMode resolved: pollForStatus starts and issues its first fetch.
SetModeResolves(w) ==
  /\ w.pc = "setMode"
  /\ workers' = (workers \ {w}) \cup
                  {[w EXCEPT !.pc = "status", !.attempt = 1,
                             !.lastDevice = NoDevice]}
  /\ log' = CalledGetDeviceStatus(AnsweredSetMode(log, w.job, "resolved"), w.job)
  /\ UNCHANGED <<queue, isProcessing, jobs, acks, streamVars, clientVars,
                 decoderVars, controllerVars, authVars>>

\* setDeviceMode rejected: the catch of runJob publishes the failure.
SetModeRejects(w, error) ==
  /\ w.pc = "setMode"
  /\ workers' = (workers \ {w}) \cup {[w EXCEPT !.pc = "settled"]}
  /\ log' = SetModeFailure(AnsweredSetMode(log, w.job, "rejected"), w.job, error)
  /\ UNCHANGED <<queue, isProcessing, jobs, acks, streamVars, clientVars,
                 decoderVars, controllerVars, authVars>>

\* getDeviceStatus resolved with a snapshot: on a match pollForStatus
\* returns and runJob publishes; otherwise the delay starts.
StatusResolves(w, device) ==
  /\ w.pc = "status"
  /\ LET j == w.job
         hit == matchesExpected(device, jobs[j].payload)
         got == Matched(device, w.attempt)
         last == Remember(w.lastDevice, device)
         h == AnsweredSnapshot(log, j, device, hit)
     IN  IF hit
         THEN /\ workers' = (workers \ {w}) \cup
                              {[w EXCEPT !.pc = "settled", !.lastDevice = last]}
              /\ log' = Broadcast(h, j,
                          publishResult(Completed(j, got.device, got.attempts)))
         ELSE /\ workers' = (workers \ {w}) \cup
                              {[w EXCEPT !.pc = "wait", !.lastDevice = last]}
              /\ log' = CalledWait(h, j)
  /\ UNCHANGED <<queue, isProcessing, jobs, acks, streamVars, clientVars,
                 decoderVars, controllerVars, authVars>>

\* getDeviceStatus rejected: logged, then the delay starts.
StatusRejects(w) ==
  /\ w.pc = "status"
  /\ workers' = (workers \ {w}) \cup {[w EXCEPT !.pc = "wait"]}
  /\ log' = CalledWait(AnsweredError(log, w.job), w.job)
  /\ UNCHANGED <<queue, isProcessing, jobs, acks, streamVars, clientVars,
                 decoderVars, controllerVars, authVars>>

\* Mutant: the loop runs one attempt more.
WithinAttempts_OneMore(attempt) == attempt <= MAX_ATTEMPTS + 1

\* attempt <= MAX_ATTEMPTS
WithinAttempts(attempt) == attempt <= MAX_ATTEMPTS

\* The delay timer fired: the next attempt, or the end of pollForStatus and
\* the outcome runJob publishes for it.
DelayFires(w) ==
  /\ w.pc = "wait"
  /\ IF WithinAttempts(w.attempt + 1)
     THEN /\ workers' = (workers \ {w}) \cup
                          {[w EXCEPT !.pc = "status", !.attempt = w.attempt + 1]}
          /\ log' = CalledGetDeviceStatus(log, w.job)
     ELSE /\ workers' = (workers \ {w}) \cup
                          {[w EXCEPT !.pc = "settled", !.attempt = w.attempt + 1]}
          /\ log' = Broadcast(log, w.job,
                      publishResult(Exhausted(w.job, w.lastDevice)))
  /\ UNCHANGED <<queue, isProcessing, jobs, acks, streamVars, clientVars,
                 decoderVars, controllerVars, authVars>>

\* await runJob(job) resumed normally: the loop goes on.
RunJobSettles(w) ==
  /\ w.pc = "settled"
  /\ UNCHANGED <<jobs, acks, streamVars, clientVars,
                 decoderVars, controllerVars, authVars>>
  /\ Loop(queue, isProcessing, workers \ {w}, log, {w.job})

\* Mutant: processQueue without its try/catch: the exception ends the
\* invocation, nothing is published and the flag stays set.
RunJobCrashes_Uncaught(w) ==
  /\ w.pc = "crashed"
  /\ workers' = workers \ {w}
  /\ UNCHANGED <<queue, isProcessing, jobs, acks, log, streamVars, clientVars,
                 decoderVars, controllerVars, authVars>>

\* await runJob(job) threw: the catch of processQueue publishes the failure,
\* then the loop goes on.
RunJobCrashes(w) ==
  /\ w.pc = "crashed"
  /\ UNCHANGED <<jobs, acks, streamVars, clientVars,
                 decoderVars, controllerVars, authVars>>
  /\ Loop(queue, isProcessing, workers \ {w},
          Broadcast(log, w.job, publishResult(Failed(w.job, LoggerError))),
          {w.job})

(***************************************************************************)
(* The event broadcaster (eventStream.ts).  Every operation of it is       *)
(* synchronous, so each action below is one whole call.  A write to a      *)
(* stream and the close of a stream either return or throw, chosen by the  *)
(* environment.                                                            *)
(***************************************************************************)
\* The frames written to a stream.
Connected == <<"connected", 0>>

HeartbeatFrame == <<"heartbeat", 0>>

\* The two writes of the broadcastEvent call numbered k.
EventLine(k) == <<"event", k>>

DataLine(k) == <<"data", k>>

Range(s) == {s[i] : i \in DOMAIN s}

\* clients.delete(clientId), on the insertion order.
Without(s, c) == SelectSeq(s, LAMBDA x : x # c)

\* The broadcaster b ([clients, heartbeat, streams, raised]) after a write
\* of the frame to the stream of client c returned.
Write(b, c, frame) == [b EXCEPT !.streams[c].frames = Append(@, frame)]

\* Mutant: removeClient without its guard.
Absent_Unchecked(b, c) == FALSE

\* if (!client) return;
Absent(b, c) == c \notin Range(b.clients)

\* Mutant: the interval timer is not cleared.
Cancel_Forgotten(hb, c) == hb

\* clearInterval(client.heartbeat)
Cancel(hb, c) == hb \ {c}

\* try { client.res.end() } catch {}: whether the failure of end() leaves
\* removeClient as an exception.
EndFailure(endThrows) == FALSE

\* Mutant: the oldest client is removed, whichever was asked for.
removeClient_Oldest(b, c, endThrows) ==
  IF b.clients = << >> THEN b
  ELSE [clients |-> Tail(b.clients),
        heartbeat |-> Cancel(b.heartbeat, Head(b.clients)),
        streams |-> [b.streams EXCEPT ![Head(b.clients)].ends = @ + 1],
        raised |-> EndFailure(endThrows)]

\* removeClient(clientId); endThrows tells whether res.end() throws.
removeClient(b, c, endThrows) ==
  IF Absent(b, c) THEN b
  ELSE [clients |-> Without(b.clients, c),
        heartbeat |-> Cancel(b.heartbeat, c),
        streams |-> [b.streams EXCEPT ![c].ends = @ + 1],
        raised |-> EndFailure(endThrows)]

\* The broadcaster as the operations find it.
Broadcaster ==
  [clients |-> clients, heartbeat |-> heartbeat, streams |-> streams,
   raised |-> FALSE]

\* Mutant: the last event is kept and replayed to a new client.
Ack_Replay ==
  IF writes = 0 THEN <<Connected>>
  ELSE <<Connected, EventLine(writes), DataLine(writes)>>

\* Mutant: the acknowledgement is not written.
Ack_Missing == << >>

\* res.write(": connected\n\n"), on a new stream.
Ack == <<Connected>>

\* registerClient(req, res, log); ackThrows tells whether the write of the
\* acknowledgement throws, which ends registerClient before a client was
\* created.
registerClient(ackThrows) ==
  /\ Len(streams) < MaxClients
  /\ LET c == Len(streams) + 1
     IN  IF ackThrows
         THEN /\ op' = [name |-> "registerClient", client |-> 0,
                        failed |-> {}, endThrew |-> FALSE, raised |-> TRUE]
              /\ UNCHANGED <<clients, heartbeat, streams, listening>>
         ELSE /\ streams' = Append(streams, [frames |-> Ack, ends |-> 0])
              /\ heartbeat' = heartbeat \cup {c}
              /\ clients' = Append(clients, c)
              /\ listening' = listening \cup {c}
              /\ op' = [name |-> "registerClient", client |-> c,
                        failed |-> {}, endThrew |-> FALSE, raised |-> FALSE]
  /\ UNCHANGED <<writes, queueVars, clientVars,
                 decoderVars, controllerVars>>

\* The callback of the heartbeat interval of client c.
HeartbeatTick(c, writeThrows, endThrows) ==
  /\ c \in heartbeat
  /\ writeThrows \/ writes < MaxWrites
  /\ LET b == IF writeThrows THEN removeClient(Broadcaster, c, endThrows)
              ELSE Write(Broadcaster, c, HeartbeatFrame)
     IN  /\ clients' = b.clients
         /\ heartbeat' = b.heartbeat
         /\ streams' = b.streams
         /\ op' = [name |-> "heartbeat", client |-> c,
                   failed |-> IF writeThrows THEN {c} ELSE {},
                   endThrew |-> endThrows /\ b.clients # clients,
                   raised |-> b.raised]
  /\ writes' = IF writeThrows THEN writes ELSE writes + 1
  /\ UNCHANGED <<listening, queueVars, clientVars,
                 decoderVars, controllerVars, authVars>>

\* req.on("close"): the transport of client c closed.
TransportClose(c, endThrows) ==
  /\ c \in listening
  /\ listening' = listening \ {c}
  /\ LET b == removeClient(Broadcaster, c, endThrows)
     IN  /\ clients' = b.clients
         /\ heartbeat' = b.heartbeat
         /\ streams' = b.streams
         /\ op' = [name |-> "close", client |-> c, failed |-> {},
                   endThrew |-> endThrows /\ b.clients # clients,
                   raised |-> b.raised]
  /\ UNCHANGED <<writes, queueVars, clientVars,
                 decoderVars, controllerVars, authVars>>

\* Mutant: an index over an array from which the failing entry was spliced.
Advance_PastRemoved(i, removed) == i + 1

\* for (const client of clients.values()): the position of the next entry,
\* given that the entry at position i was deleted or not.  A Map iterator
\* goes on with the entry that followed the deleted one.
Advance(i, removed) == IF removed THEN i ELSE i + 1

\* The loop of broadcastEvent from position i.  fails[c] is 0 when both
\* writes to c return, 1 when the first throws and 2 when the second does;
\* endThrows tells whether res.end() throws in this call.
RECURSIVE Visit(_, _, _, _, _)
Visit(b, i, k, fails, endThrows) ==
  IF i > Len(b.clients) \/ b.raised THEN b
  ELSE LET c == b.clients[i]
           one == IF fails[c] = 1 THEN b ELSE Write(b, c, EventLine(k))
           two == IF fails[c] = 0 THEN Write(one, c, DataLine(k)) ELSE one
       IN  IF fails[c] = 0
           THEN Visit(two, Advance(i, FALSE), k, fails, endThrows)
           ELSE Visit(removeClient(two, c, endThrows), Advance(i, TRUE),
                      k, fails, endThrows)

\* broadcastEvent(event, payload); the event is numbered writes + 1.
broadcastEvent(fails, endThrows) ==
  /\ writes < MaxWrites
  /\ LET b == Visit(Broadcaster, 1, writes + 1, fails, endThrows)
     IN  /\ clients' = b.clients
         /\ heartbeat' = b.heartbeat
         /\ streams' = b.streams
         /\ op' = [name |-> "broadcastEvent", client |-> 0,
                   failed |-> {c \in DOMAIN fails : fails[c] # 0},
                   endThrew |-> endThrows /\ b.clients # clients,
                   raised |-> b.raised]
  /\ writes' = writes + 1
  /\ UNCHANGED <<listening, queueVars, clientVars,
                 decoderVars, controllerVars, authVars>>

\* connectedClients()
connectedClients == Len(clients)

(***************************************************************************)
(* The vendor service and its client (bghService.ts, client.ts).  An       *)
(* action is one run of a service call from a resumption to its next       *)
(* await.  The vendor and the transport are the environment: they choose   *)
(* the answer to every http.post.                                          *)
(***************************************************************************)
\* The operations of the service explored and the endpoint of each
\* (listDevices posts to the endpoint of getDeviceStatus).
Operations == {"listHomes", "getDeviceStatus", "setDeviceMode"}

Endpoint ==
  [listHomes |-> "EnumHomes", getDeviceStatus |-> "GetDataPacket",
   setDeviceMode |-> "HVACSetModes"]

\* What the transport does with a request: a 2xx response with the data
\* asked for ("ok"), a 2xx response whose data packet lacks the device
\* ("absent"), a 2xx response whose data is not an object ("notJson"), a
\* non-2xx response ("status"), or no response at all, as on a timeout or
\* a connection error ("noResponse").
Responses == {"ok", "absent", "notJson", "status", "noResponse"}

\* The answers explored for a request of the kind: a data packet is the
\* only answer a device can be absent from.
ResponsesTo(kind) ==
  IF kind = "getDeviceStatus" THEN Responses ELSE Responses \ {"absent"}

\* A value of data.d in a 2xx login response whose data is an object: its
\* typeof, its text when it is a string or a number and, when it is an
\* object, the typeof and the text of its Token property ("undefined": it
\* has none).
TokenValue(type, text, tokenType, tokenText) ==
  [type |-> type, text |-> text, tokenType |-> tokenType, tokenText |-> tokenText]

\* The values of data.d explored, by name: a string, an object with a
\* string Token, no d at all, the empty string, a number, an object
\* without Token and an object whose Token is a number.
LoginData ==
  [ok |-> TokenValue("string", "token-1", "undefined", ""),
   okObject |-> TokenValue("object", "", "string", "token-2"),
   missing |-> TokenValue("undefined", "", "undefined", ""),
   empty |-> TokenValue("string", "", "undefined", ""),
   number |-> TokenValue("number", "42", "undefined", ""),
   noToken |-> TokenValue("object", "", "undefined", ""),
   numberToken |-> TokenValue("object", "", "number", "42")]

\* What the transport does with the login request: a 2xx response with one
\* of the values above for data.d, or one of the last three of Responses.
LoginResponses == DOMAIN LoginData \cup {"notJson", "status", "noResponse"}

\* The error classes and, for each, the classes instanceof holds of.
Classes ==
  [BGHServiceError |-> {"BGHServiceError", "Error"},
   BGHAuthenticationError |-> {"BGHAuthenticationError", "BGHApiError", "Error"},
   BGHApiError |-> {"BGHApiError", "Error"},
   AxiosError |-> {"AxiosError", "Error"},
   Error |-> {"Error"}]

InstanceOf(error, class) == class \in Classes[error.class]

Thrown(class, message) == [class |-> class, message |-> message, code |-> ""]

BGHServiceError(message, code) ==
  [class |-> "BGHServiceError", message |-> message, code |-> code]

\* The messages of the errors.
DeviceNotFound == "Device 7 not found for home 1"

\* /not found/i.test(message)
MentionsNotFound(message) == message \in {DeviceNotFound, "Devices not found"}

\* isAxiosError(error)
isAxiosError(error) == InstanceOf(error, "AxiosError")

\* What http.post does on a response of the transport: the error it throws,
\* or NoError when it returns the response.
NoError == [class |-> "none", message |-> "", code |-> ""]

HttpPost(r) ==
  CASE r = "status" -> [error |-> Thrown("AxiosError", "Request failed with status code 500"),
                        response |-> TRUE]
    [] r = "noResponse" -> [error |-> Thrown("AxiosError", "timeout of 15000ms exceeded"),
                            response |-> FALSE]
    [] OTHER -> [error |-> NoError, response |-> TRUE]

\* extractJson(response, context): the error it throws, if any.
extractJson(r) ==
  IF r = "notJson" THEN Thrown("BGHApiError", "Unable to parse response as JSON")
  ELSE NoError

\* Mutant: only a missing d counts as no token.
Falsy_OnlyUndefined(value) == value.type = "undefined"

\* !token
Falsy(value) ==
  \/ value.type = "undefined"
  \/ value.type = "string" /\ value.text = ""
  \/ value.type = "number" /\ value.text = "0"

\* How a call of login ends: with the error it throws, or with the Token
\* of the payload it returns.
LoginThrows(error) == [error |-> error, token |-> ""]

LoginReturns(text) == [error |-> NoError, token |-> text]

\* BGHClient.login from the answer to its request on.
login(r) ==
  LET sent == HttpPost(r)
      d == LoginData[r]
      inner ==
        IF sent.error # NoError THEN LoginThrows(sent.error)
        ELSE IF extractJson(r) # NoError THEN LoginThrows(extractJson(r))
        ELSE IF Falsy(d)
             THEN LoginThrows(Thrown("BGHAuthenticationError",
                                     "Missing authentication token"))
        ELSE IF d.type = "string" THEN LoginReturns(d.text)
        ELSE IF /\ d.type = "object"
                /\ d.tokenType # "undefined"
                /\ d.tokenType = "string"
             THEN LoginReturns(d.tokenText)
        ELSE LoginThrows(Thrown("BGHAuthenticationError",
                                "Unexpected authentication token format"))
  IN  IF inner.error # NoError /\ isAxiosError(inner.error) /\ sent.response
      THEN LoginThrows(Thrown("BGHAuthenticationError",
                              "Authentication failed with status 500"))
      ELSE inner

\* BGHClient.post from the answer to its request on: the error it throws.
post(r) ==
  LET sent == HttpPost(r)
  IN  IF sent.error # NoError /\ isAxiosError(sent.error)
      THEN IF sent.response
           THEN Thrown("BGHApiError", "Request failed with status 500")
           ELSE Thrown("BGHApiError", "Request failed: timeout of 15000ms exceeded")
      ELSE sent.error

\* getDeviceStatus: const device = devices[deviceId]; if (!device) throw.
DeviceLookup(r) ==
  IF r = "absent" THEN Thrown("BGHApiError", DeviceNotFound) ELSE NoError

\* The client method of a service operation from the answer to its request
\* on: the error it throws, or NoError when it returns its result.
Answer(kind, r) ==
  IF post(r) # NoError THEN post(r)
  ELSE IF extractJson(r) # NoError THEN extractJson(r)
  ELSE IF kind = "getDeviceStatus" THEN DeviceLookup(r)
  ELSE NoError

\* normaliseError(context, error, log): the code of the BGHServiceError.
normaliseError(error) ==
  IF InstanceOf(error, "BGHServiceError") THEN error.code
  ELSE IF InstanceOf(error, "BGHAuthenticationError") THEN "AUTHENTICATION_ERROR"
  ELSE IF InstanceOf(error, "BGHApiError") THEN "UPSTREAM_ERROR"
  ELSE IF InstanceOf(error, "Error") /\ MentionsNotFound(error.message)
       THEN "NOT_FOUND"
  ELSE "UNEXPECTED_ERROR"

\* mapStatus(code) of the controller.
mapStatus(code) ==
  CASE code = "NOT_FOUND" -> 404
    [] code = "AUTHENTICATION_ERROR" -> 401
    [] code = "UPSTREAM_ERROR" -> 502
    [] code = "CONFIGURATION_ERROR" -> 500
    [] OTHER -> 500

\* What the caller of a service operation observes when it ends with the
\* error (NoError: it returns its result).
Observed(error) ==
  IF error = NoError THEN [code |-> "OK", status |-> 200, cause |-> NoError]
  ELSE [code |-> normaliseError(error), status |-> mapStatus(normaliseError(error)),
        cause |-> error]

NotEnded == [code |-> "", status |-> 0, cause |-> NoError]

\* One http.post(LOGIN_ENDPOINT, ...), made in service call i.
LoginRequest(i) == [call |-> i, after |-> invoked]

\* this.tokenPromise = this.login(email, password): login runs to its await
\* of http.post inside the constructor; ls are the login requests so far.
ConstructorLogin(ls, i) == Append(ls, LoginRequest(i))

\* Mutant: an operation that finds the login failed logs in again.
EnsureTokenLogins_Retry(ls, i) ==
  IF tokenPromise.state = "rejected" THEN Append(ls, LoginRequest(i)) ELSE ls

\* Mutant: an operation that finds no token logs in itself.
EnsureTokenLogins_PerCaller(ls, i) ==
  IF token = "none" THEN Append(ls, LoginRequest(i)) ELSE ls

\* ensureToken, called in service call i: the login requests after it.  It
\* awaits this.tokenPromise and posts nothing.
EnsureTokenLogins(ls, i) == ls

\* The options of setMode explored: its mode and its fan ("auto" when the
\* caller gave none).  One pair of the two tables, one with a mode and one
\* with a fan that no table has, and one whose mode is a key every object
\* inherits.
SetModeOptions ==
  { [mode |-> "cool", fan |-> "auto"],
    [mode |-> "turbo", fan |-> "auto"],
    [mode |-> "cool", fan |-> "hurricane"],
    [mode |-> "constructor", fan |-> "auto"] }

\* The options of an operation that has none.
NoOptions == [mode |-> "", fan |-> ""]

\* The checks setMode makes before it builds its request: the error it
\* throws, or NoError.
setModeChecks(options) ==
  IF ~In(options.mode, HVAC_MODES) THEN Thrown("Error", "Unsupported HVAC mode")
  ELSE IF ~In(options.fan, FAN_MODES) THEN Thrown("Error", "Unsupported fan mode")
  ELSE NoError

\* A service operation is called: getClient creates the client on the
\* first call (configured tells whether the credentials are set), and the
\* operation is suspended at await getClient(...).  options are the mode
\* and the fan of a setDeviceMode.
ServiceCall(kind, options, configured) ==
  /\ Len(calls) < MaxCalls
  /\ calls' = Append(calls, [kind |-> kind, options |-> options, pc |-> "client",
                             answer |-> "", result |-> NotEnded])
  /\ IF clientPromise = "unset"
     THEN IF configured
          THEN /\ clientPromise' = "client"
               /\ logins' = ConstructorLogin(logins, Len(calls) + 1)
               /\ tokenPromise' = [state |-> "pending", answer |-> "",
                                   error |-> NoError, token |-> ""]
          ELSE /\ clientPromise' = "rejected"
               /\ UNCHANGED <<logins, tokenPromise>>
     ELSE UNCHANGED <<clientPromise, logins, tokenPromise>>
  /\ UNCHANGED <<token, posts, invoked, queueVars, streamVars, decoderVars>>

\* await getClient(...) resumed in call i: the client method is invoked and
\* runs to its await of ensureToken in post, unless it throws before.
ClientResolves(i) ==
  /\ calls[i].pc = "client"
  /\ IF clientPromise = "rejected"
     THEN /\ calls' = [calls EXCEPT ![i].pc = "done",
                         ![i].result = Observed(BGHServiceError(
                            "Missing BGH credentials", "CONFIGURATION_ERROR"))]
          /\ UNCHANGED <<invoked, logins>>
     ELSE /\ invoked' = invoked + 1
          /\ IF /\ calls[i].kind = "setDeviceMode"
                /\ setModeChecks(calls[i].options) # NoError
             THEN /\ calls' = [calls EXCEPT ![i].pc = "done",
                                 ![i].result =
                                   Observed(setModeChecks(calls[i].options))]
                  /\ UNCHANGED logins
             ELSE /\ calls' = [calls EXCEPT ![i].pc = "token"]
                  /\ logins' = EnsureTokenLogins(logins, i)
  /\ UNCHANGED <<clientPromise, token, tokenPromise, posts, queueVars,
                 streamVars,
                 decoderVars, controllerVars, authVars>>

\* The login request was answered: the promise login returned settles.
LoginResponds(r) ==
  /\ tokenPromise.state = "pending"
  /\ tokenPromise' = [state |-> IF login(r).error = NoError THEN "fulfilled"
                                 ELSE "rejected",
                       answer |-> r,
                       error |-> login(r).error,
                       token |-> login(r).token]
  /\ UNCHANGED <<clientPromise, token, logins, posts, invoked, calls,
                 queueVars, streamVars,
                 decoderVars, controllerVars, authVars>>

\* await this.ensureToken() resumed in call i: with the token, the request
\* of the operation is issued; with the error of the login, the operation
\* ends.
TokenResolves(i) ==
  /\ calls[i].pc = "token"
  /\ tokenPromise.state \in {"fulfilled", "rejected"}
  /\ IF tokenPromise.state = "fulfilled"
     THEN /\ token' = tokenPromise.token
          /\ posts' = posts \cup {[endpoint |-> Endpoint[calls[i].kind],
                                    call |-> i]}
          /\ calls' = [calls EXCEPT ![i].pc = "http"]
     ELSE /\ calls' = [calls EXCEPT ![i].pc = "done",
                         ![i].result = Observed(tokenPromise.error)]
          /\ UNCHANGED <<token, posts>>
  /\ UNCHANGED <<clientPromise, tokenPromise, logins, invoked, queueVars,
                 streamVars,
                 decoderVars, controllerVars, authVars>>

\* The request of call i was answered: the operation ends.
HttpResponds(i, r) ==
  /\ calls[i].pc = "http"
  /\ calls' = [calls EXCEPT ![i].pc = "done",
                 ![i].answer = r,
                 ![i].result = Observed(Answer(calls[i].kind, r))]
  /\ UNCHANGED <<clientPromise, token, tokenPromise, logins, posts, invoked,
                 queueVars, streamVars,
                 decoderVars, controllerVars, authVars>>

(***************************************************************************)
(* The decoding of a data packet (BGHClient.getDevices: parseDevices,      *)
(* normaliseValues, parseRawValues).  Every number of a data packet is an   *)
(* integer in tenths, the codes of modes and fans included (a decoded       *)
(* snapshot is not handed to matchesExpected here).                        *)
(***************************************************************************)
VALUE_TYPE_TEMPERATURE == 13
VALUE_TYPE_MODE == 14
VALUE_TYPE_FAN_SPEED == 15
VALUE_TYPE_TARGET_TEMPERATURE == 20

\* Number.isNaN holds of this one.
NaN == -9999

\* A JSON value: its typeof and its text.
Json(type, text) == [type |-> type, text |-> text]

\* What item.Value is when no item has the value type.
UndefinedValue == Json("undefined", "")

\* The decimal texts explored and the number each one reads as, in tenths.
Decimals ==
  ("-50.1" :> -501) @@ ("-50" :> -500) @@ ("-49.9" :> -499) @@ ("0" :> 0) @@
  ("1" :> 10) @@ ("2" :> 20) @@ ("3" :> 30) @@ ("7" :> 70) @@ ("20" :> 200) @@
  ("21.5" :> 215) @@ ("255" :> 2550)

\* Number(value) of a number or a string: the empty string and a blank one
\* read as 0 and any other text that is no numeral as NaN.
Number(value) ==
  IF value.text \in DOMAIN Decimals THEN Decimals[value.text]
  ELSE IF value.text \in {"", " "} THEN 0
  ELSE NaN

\* typeof value === "number" || typeof value === "string"
NumberOrString(value) == value.type \in {"number", "string"}

Item(valueType, type, text) == [ValueType |-> valueType, Value |-> Json(type, text)]

\* The items of a Values array explored: for each value type, numbers on
\* both sides of what the decoder singles out, strings that read as a
\* number, as 0 and as NaN, and null; and an item of another value type.
Items ==
  {Item(VALUE_TYPE_TEMPERATURE, "number", text) :
     text \in {"-50.1", "-50", "-49.9", "0", "21.5"}}
  \cup {Item(VALUE_TYPE_TEMPERATURE, "string", text) : text \in {"-50", "", "abc"}}
  \cup {Item(VALUE_TYPE_TARGET_TEMPERATURE, "number", text) :
          text \in {"255", "20", "21.5", "0"}}
  \cup {Item(VALUE_TYPE_TARGET_TEMPERATURE, "string", text) : text \in {"255", "abc"}}
  \cup {Item(VALUE_TYPE_FAN_SPEED, "number", text) : text \in {"3", "0"}}
  \cup {Item(VALUE_TYPE_FAN_SPEED, "string", "abc")}
  \cup {Item(VALUE_TYPE_MODE, "number", text) : text \in {"1", "0"}}
  \cup {Item(VALUE_TYPE_MODE, "string", "2")}
  \cup {Item(valueType, "object", "null") :
          valueType \in {VALUE_TYPE_TEMPERATURE, VALUE_TYPE_TARGET_TEMPERATURE,
                         VALUE_TYPE_FAN_SPEED, VALUE_TYPE_MODE}}
  \cup {Item(7, "number", "7")}

\* Mutant: the last item of the value type is taken.
findValue_Last(values, valueType) ==
  LET found == {n \in DOMAIN values : values[n].ValueType = valueType}
  IN  IF found = {} THEN UndefinedValue
      ELSE values[CHOOSE n \in found : \A m \in found : m <= n].Value

\* findValue(valueType) of parseRawValues over values.
findValue(values, valueType) ==
  LET found == {n \in DOMAIN values : values[n].ValueType = valueType}
  IN  IF found = {} THEN UndefinedValue
      ELSE values[CHOOSE n \in found : \A m \in found : n <= m].Value

\* Mutant: -50 itself is a reading.
Temperature_Exclusive(n) == IF n < -500 THEN Null ELSE n

\* numericTemperature <= -50 ? null : numericTemperature
Temperature(n) == IF n <= -500 THEN Null ELSE n

\* Mutant: 255 is a reading like any other.
TargetTemperature_NoSentinel(n) == n

\* numericTargetTemperature === 255 ? 20 : numericTargetTemperature
TargetTemperature(n) == IF n = 2550 THEN 200 ELSE n

\* parseRawValues(values)
parseRawValues(values) ==
  LET temperatureValue == findValue(values, VALUE_TYPE_TEMPERATURE)
      targetTemperatureValue == findValue(values, VALUE_TYPE_TARGET_TEMPERATURE)
      fanSpeedValue == findValue(values, VALUE_TYPE_FAN_SPEED)
      modeValue == findValue(values, VALUE_TYPE_MODE)
  IN  [temperature |->
         IF NumberOrString(temperatureValue) /\ Number(temperatureValue) # NaN
         THEN Temperature(Number(temperatureValue))
         ELSE Null,
       targetTemperature |->
         IF /\ NumberOrString(targetTemperatureValue)
            /\ Number(targetTemperatureValue) # NaN
         THEN TargetTemperature(Number(targetTemperatureValue))
         ELSE Null,
       fanSpeed |->
         IF NumberOrString(fanSpeedValue) /\ Number(fanSpeedValue) # NaN
         THEN Number(fanSpeedValue)
         ELSE Null,
       modeId |->
         IF NumberOrString(modeValue) /\ Number(modeValue) # NaN
         THEN Number(modeValue)
         ELSE Null]

\* An entry of EndpointValues: whether its Values is an array, and the
\* items of that array that are objects.
Group(isArray, values) == [isArray |-> isArray, Values |-> values]

\* What endpointValues[index] is past the end of the array.
UndefinedGroup == Group(FALSE, << >>)

\* normaliseValues(valuesGroup)
normaliseValues(valuesGroup) ==
  IF ~valuesGroup.isArray THEN << >> ELSE valuesGroup.Values

\* An entry of Endpoints: null, or an object with the typeof and the value
\* of its EndpointID ("undefined": it has none).
RawEndpoint(type, id) == [type |-> type, EndpointID |-> id]

NullEndpoint == RawEndpoint("null", 0)

\* Mutant: every endpoint object gets a snapshot.
NumericId_Any(endpoint) == TRUE

\* typeof endpointId === "number"
NumericId(endpoint) == endpoint.type = "number"

\* An entry of Devices: an object with its DeviceModel and its Address.
RawDevice(model, address) ==
  [defined |-> TRUE, DeviceModel |-> model, Address |-> address]

\* undefined, where the defined values are strings.
NoString == "(undefined)"

\* What devicesMeta[index] is past the end of the array; metadata?.DeviceModel
\* and metadata?.Address are undefined then.
UndefinedDevice ==
  [defined |-> FALSE, DeviceModel |-> NoString, Address |-> NoString]

\* The {} of metadata ?? {}.
EmptyObject ==
  [defined |-> TRUE, DeviceModel |-> NoString, Address |-> NoString]

\* new DeviceStatus(endpointId, ..., metadata?.DeviceModel, metadata?.Address,
\* parsed.temperature, ..., metadata ?? {}, endpoint): the fields taken from
\* the metadata and those decoded from the values (the description, the
\* raw values and the endpoint are copied as they are, and are left out).
DeviceStatus(endpointId, metadata, parsed) ==
  [deviceId |-> endpointId,
   model |-> metadata.DeviceModel,
   serialNumber |-> metadata.Address,
   rawDevice |-> IF metadata.defined THEN metadata ELSE EmptyObject,
   temperature |-> parsed.temperature,
   targetTemperature |-> parsed.targetTemperature,
   fanSpeed |-> parsed.fanSpeed,
   modeId |-> parsed.modeId]

\* devices[endpointId] = device
Put(map, device) == {d \in map : d.deviceId # device.deviceId} \cup {device}

\* Mutant: the value groups are counted over the endpoints that bear a
\* numeric identifier only.
ValuesGroupAt_Compacted(data, index) ==
  LET n == Cardinality({m \in 1..index : NumericId(data.Endpoints[m])})
  IN  IF n \in DOMAIN data.EndpointValues THEN data.EndpointValues[n]
      ELSE UndefinedGroup

\* endpointValues[index]
ValuesGroupAt(data, index) ==
  IF index \in DOMAIN data.EndpointValues THEN data.EndpointValues[index]
  ELSE UndefinedGroup

\* devicesMeta[index]
MetadataAt(data, index) ==
  IF index \in DOMAIN data.Devices THEN data.Devices[index]
  ELSE UndefinedDevice

\* The loop of parseDevices from index on (the index is 1-based here).
RECURSIVE parseDevicesFrom(_, _, _)
parseDevicesFrom(data, index, map) ==
  IF index > Len(data.Endpoints) THEN map
  ELSE LET endpoint == data.Endpoints[index]
           valuesGroup == ValuesGroupAt(data, index)
           metadata == MetadataAt(data, index)
       IN  IF endpoint = NullEndpoint \/ ~NumericId(endpoint)
           THEN parseDevicesFrom(data, index + 1, map)
           ELSE parseDevicesFrom(data, index + 1,
                  Put(map, DeviceStatus(endpoint.EndpointID, metadata,
                                        parseRawValues(normaliseValues(valuesGroup)))))

\* parseDevices(data)
parseDevices(data) == parseDevicesFrom(data, 1, {})

\* The data packets explored.  One endpoint, number 7, with every array of
\* at most MaxValues items as its values; and every sequence of at most
\* MaxEndpoints endpoints, each one null or with a number, a string or
\* nothing as its id, and each one with one of three value groups, or
\* with none when EndpointValues is shorter than Endpoints, and each one
\* with one of two metadata entries, or with none when Devices is shorter
\* than Endpoints.
SeqsUpTo(set, n) == UNION {[1..k -> set] : k \in 0..n}

RawEndpoints ==
  {NullEndpoint, RawEndpoint("number", 7), RawEndpoint("number", 8),
   RawEndpoint("string", 7), RawEndpoint("undefined", 0)}

Groups ==
  {Group(FALSE, << >>),
   Group(TRUE, <<Item(VALUE_TYPE_TEMPERATURE, "number", "21.5")>>),
   Group(TRUE, <<Item(VALUE_TYPE_MODE, "number", "1")>>)}

Metadata == {RawDevice("BGH-A", "S-1"), RawDevice("BGH-B", "S-2")}

Packets ==
  {[Endpoints |-> <<RawEndpoint("number", 7)>>,
    EndpointValues |-> <<Group(TRUE, values)>>,
    Devices |-> << >>] :
     values \in SeqsUpTo(Items, MaxValues)}
  \cup {data \in [Endpoints : SeqsUpTo(RawEndpoints, MaxEndpoints),
                   EndpointValues : SeqsUpTo(Groups, MaxEndpoints),
                   Devices : SeqsUpTo(Metadata, MaxEndpoints)] :
          /\ Len(data.EndpointValues) <= Len(data.Endpoints)
          /\ Len(data.Devices) <= Len(data.Endpoints)}

\* A data packet without endpoints.
NoPacket == [Endpoints |-> << >>, EndpointValues |-> << >>, Devices |-> << >>]

\* The state before parseDevices has run.
NotDecoded == [done |-> FALSE, map |-> {}]

\* await this.getDataPacket(homeId) resumed: getDevices returns
\* parseDevices(dataPacket).
getDevices ==
  /\ ~devices.done
  /\ devices' = [done |-> TRUE, map |-> parseDevices(packet)]
  /\ UNCHANGED <<packet, comparison, queueVars, streamVars, clientVars,
                 controllerVars, authVars>>

(***************************************************************************)
(* The comparison of a snapshot with a payload (matchesExpected), on its   *)
(* own.                                                                    *)
(***************************************************************************)
\* The snapshots and the payloads compared: modes and fans that are in the
\* tables, that are not, and (the mode) that every object inherits; target
\* temperatures on both sides of a half (20.5, 21.0, 21.4, 21.5, -20.5; 21.0,
\* 21.4, 21.5, -20.0); and snapshots that lack a reading.
ComparedDevices ==
  [modeId : {1, 2, Null}, fanSpeed : {3, 254, Null},
   targetTemperature : {205, 210, 214, 215, -205, Null}]

ComparedPayloads ==
  [mode : {"cool", "turbo", "constructor"}, fan : {NoFan, "high", "hurricane"},
   targetTemperature : {210, 214, 215, -200}]

Comparisons ==
  [device : ComparedDevices, payload : ComparedPayloads, result : {"pending"}]

\* No comparison is under way.
NoComparison ==
  [device |-> [modeId |-> Null, fanSpeed |-> Null, targetTemperature |-> Null],
   payload |-> [mode |-> "cool", fan |-> NoFan, targetTemperature |-> 210],
   result |-> "none"]

\* matchesExpected(device, job.payload) is evaluated.
Compare ==
  /\ comparison.result = "pending"
  /\ comparison' =
       [comparison EXCEPT !.result =
          IF matchesExpected(comparison.device, comparison.payload)
          THEN "match" ELSE "mismatch"]
  /\ UNCHANGED <<packet, devices, queueVars, streamVars, clientVars,
                 controllerVars, authVars>>

(***************************************************************************)
(* The HTTP controller (bghController.ts): the handlers getDeviceStatus    *)
(* and setDeviceMode, each up to its first await or to its return.         *)
(***************************************************************************)
\* The values of a path parameter explored: a numeral, a text that is no
\* numeral, a blank and none (req.params gives undefined, here "").
PathParams == {"7", "abc", " ", ""}

\* The bodies of a mode change explored: per field a value that passes
\* and values that are missing, of another type, empty or unknown; and as
\* mode also a key that every object inherits.
Bodies ==
  [homeId : {Json("number", "1"), Json("string", "1")},
   mode : {Json("string", "cool"), Json("string", "turbo"),
           Json("string", "constructor"), Json("string", ""),
           Json("undefined", "")},
   targetTemperature : {Json("number", "21.5"), Json("undefined", "")},
   fan : {Json("undefined", ""), Json("string", ""), Json("string", "high"),
          Json("string", "hurricane")}]

\* Of these, the body explored behind the guard of the routes, which
\* passes the checks of setDeviceMode.
RoutedBodies ==
  {body \in Bodies :
     /\ body.homeId = Json("number", "1")
     /\ body.mode = Json("string", "cool")
     /\ body.targetTemperature = Json("number", "21.5")
     /\ body.fan = Json("undefined", "")}

\* The body of a request that has none.
NoBody ==
  [homeId |-> Json("undefined", ""), mode |-> Json("undefined", ""),
   targetTemperature |-> Json("undefined", ""), fan |-> Json("undefined", "")]

\* typeof value === "number" && Number.isFinite(value)
FiniteNumber(value) == value.type = "number" /\ Number(value) # NaN

\* typeof value === "string" && value.length > 0
NonEmptyString(value) == value.type = "string" /\ value.text # ""

\* parseNumericParam(log, value, name, res): the code of the 400 it
\* answers with, or "" when it returns the number.
parseNumericParam(value) ==
  IF value = "" THEN "INVALID_PARAMETER"
  ELSE IF Number(Json("string", value)) = NaN THEN "INVALID_PARAMETER"
  ELSE ""

\* The checks of setDeviceMode on the path and on the body, in order: the
\* code of the 400 it answers with, or "" when it goes on to enqueue.
setDeviceModeChecks(deviceId, body) ==
  IF parseNumericParam(deviceId) # "" THEN parseNumericParam(deviceId)
  ELSE IF ~FiniteNumber(body.homeId) THEN "INVALID_BODY"
  ELSE IF ~NonEmptyString(body.mode) THEN "INVALID_BODY"
  ELSE IF ~In(body.mode.text, HVAC_MODES) THEN "INVALID_BODY"
  ELSE IF ~FiniteNumber(body.targetTemperature) THEN "INVALID_BODY"
  ELSE IF NonEmptyString(body.fan) /\ ~In(body.fan.text, FAN_MODES)
       THEN "INVALID_BODY"
  ELSE ""

\* const payload: CommandPayload = { mode, targetTemperature }, with the fan
\* when the body has one.
PayloadOf(body) ==
  [mode |-> body.mode.text,
   targetTemperature |-> Number(body.targetTemperature),
   fan |-> IF NonEmptyString(body.fan) THEN body.fan.text ELSE NoFan]

\* A request handled: its route, its path parameters and its body, the
\* status and the code of the answer (0 and "": the handler is suspended
\* at a call of the service and has not answered), whether it called the
\* service and the job it enqueued (0: none).
Handled(route, params, body, status, code, called, job) ==
  [route |-> route, params |-> params, body |-> body, status |-> status,
   code |-> code, called |-> called, job |-> job]

\* GET /homes/:homeId/devices/:deviceId
getDeviceStatus(homeId, deviceId, configured) ==
  /\ Len(responses) < MaxRequests
  /\ LET params == [homeId |-> homeId, deviceId |-> deviceId]
         code == IF parseNumericParam(homeId) # "" THEN parseNumericParam(homeId)
                 ELSE parseNumericParam(deviceId)
     IN  IF code # ""
         THEN /\ responses' = Append(responses, Handled("getDeviceStatus", params,
                                                        NoBody, 400, code, FALSE, 0))
              /\ UNCHANGED <<queueVars, streamVars, clientVars, decoderVars>>
         ELSE /\ ServiceCall("getDeviceStatus", NoOptions, configured)
              /\ responses' = Append(responses, Handled("getDeviceStatus", params,
                                                        NoBody, 0, "", TRUE, 0))

\* POST /devices/:deviceId/mode (the logger of the request works: a job
\* whose logger fails is explored in the specification of the queue).
setDeviceMode(deviceId, body) ==
  /\ Len(responses) < MaxRequests
  /\ LET params == [homeId |-> "", deviceId |-> deviceId]
         code == setDeviceModeChecks(deviceId, body)
     IN  IF code # ""
         THEN /\ responses' = Append(responses, Handled("setDeviceMode", params,
                                                        body, 400, code, FALSE, 0))
              /\ UNCHANGED <<queueVars, streamVars, clientVars, decoderVars>>
         ELSE /\ enqueueCommand(PayloadOf(body), FALSE)
              /\ responses' = Append(responses, Handled("setDeviceMode", params,
                                                        body, 202, "", FALSE,
                                                        Len(jobs) + 1))
              /\ UNCHANGED <<streamVars, clientVars, decoderVars>>

\* GET /homes
listHomes(configured) ==
  /\ Len(responses) < MaxRequests
  /\ ServiceCall("listHomes", NoOptions, configured)
  /\ responses' = Append(responses,
                         Handled("listHomes", [homeId |-> "", deviceId |-> ""],
                                 NoBody, 0, "", TRUE, 0))

\* GET /homes/:homeId/devices
listDevices(homeId, configured) ==
  /\ Len(responses) < MaxRequests
  /\ LET params == [homeId |-> homeId, deviceId |-> ""]
         code == parseNumericParam(homeId)
     IN  IF code # ""
         THEN /\ responses' = Append(responses, Handled("listDevices", params,
                                                        NoBody, 400, code, FALSE, 0))
              /\ UNCHANGED <<queueVars, streamVars, clientVars, decoderVars>>
         ELSE /\ ServiceCall("listDevices", NoOptions, configured)
              /\ responses' = Append(responses, Handled("listDevices", params,
                                                        NoBody, 0, "", TRUE, 0))

\* GET /events
streamDeviceEvents(ackThrows) == registerClient(ackThrows)

(***************************************************************************)
(* The session store (authService.ts) and the guard of the protected       *)
(* routes (requireAuth.ts and the router).  Every operation is synchronous, *)
(* so each action is one whole call.  Date.now() is read as one instant    *)
(* per call; the clock moves between calls.                                *)
(***************************************************************************)
SESSION_COOKIE_NAME == "cygnus_session"

SESSION_TTL_MS == 1000 * 60 * 60 * 12

\* The step of the clock explored: half the time a session lives without
\* activity.
ClockStep == SESSION_TTL_MS \div 2

\* The tokens generateToken returns are 1, 2, ... in the order it returns
\* them (each call returns a new one); a token it never returned; and the
\* empty string, which a cookie may have as its value.
Forged == 0

EmptyValue == -1

\* null, where a session is expected.
NoSession == [token |-> Forged, email |-> "", createdAt |-> 0, expiresAt |-> 0]

\* const session: Session = { token, email, createdAt: now, expiresAt: ... }
Session(key, email, time) ==
  [token |-> key, email |-> email, createdAt |-> time,
   expiresAt |-> time + SESSION_TTL_MS]

\* sessions.delete(token)
deleteSession(store, key) == [t \in DOMAIN store \ {key} |-> store[t]]

\* Mutant: a session is still alive at the instant it expires.
Expired_After(session, time) == session.expiresAt < time

\* session.expiresAt <= Date.now()
Expired(session, time) == session.expiresAt <= time

\* getSession(token) at the given time: the session returned and the store
\* it leaves.
getSession(store, key, time) ==
  IF key \notin DOMAIN store
  THEN [session |-> NoSession, sessions |-> store]
  ELSE IF Expired(store[key], time)
       THEN [session |-> NoSession, sessions |-> deleteSession(store, key)]
       ELSE LET refreshed == [store[key] EXCEPT
                                !.expiresAt = time + SESSION_TTL_MS]
            IN  [session |-> refreshed,
                 sessions |-> [store EXCEPT ![key] = refreshed]]

\* A Cookie header is the sequence of its name=value pairs, split at the
\* semicolons and trimmed; the empty sequence is a request without the
\* header, or with an empty one.
Cookie(name, value) == [name |-> name, value |-> value]

\* parseCookies(cookieHeader): a pair without name is skipped and a later
\* pair overwrites an earlier one of the same name.
parseCookies(header) ==
  [name \in {header[i].name : i \in DOMAIN header} \ {""} |->
     header[CHOOSE i \in DOMAIN header :
              /\ header[i].name = name
              /\ \A j \in DOMAIN header : header[j].name = name => j <= i].value]

\* getSessionFromRequest(req) at the given time.
getSessionFromRequest(store, header, time) ==
  IF header = << >> THEN [session |-> NoSession, sessions |-> store]
  ELSE LET cookies == parseCookies(header)
       IN  IF SESSION_COOKIE_NAME \notin DOMAIN cookies
           THEN [session |-> NoSession, sessions |-> store]
           ELSE IF cookies[SESSION_COOKIE_NAME] = EmptyValue
                THEN [session |-> NoSession, sessions |-> store]
                ELSE getSession(store, cookies[SESSION_COOKIE_NAME], time)

\* The Cookie headers explored: none, one without the session cookie, one
\* whose session cookie is empty, forged or a token that was issued, and
\* one that has the session cookie twice.
Headers ==
  {<< >>, <<Cookie("theme", 1)>>, <<Cookie("", 1)>>}
  \cup {<<Cookie(SESSION_COOKIE_NAME, value)>> :
          value \in {EmptyValue, Forged} \cup 1..issued}
  \cup {<<Cookie(SESSION_COOKIE_NAME, value), Cookie(SESSION_COOKIE_NAME, Forged)>> :
          value \in 1..issued}

\* What the store did last.
Did(name, key, session) ==
  [name |-> name, token |-> key, time |-> now, session |-> session]

\* createSession(email)
createSession(email) ==
  /\ issued < MaxSessions
  /\ LET key == issued + 1
         session == Session(key, email, now)
     IN  /\ sessions' = (key :> session) @@ sessions
         /\ authOp' = Did("createSession", key, session)
  /\ issued' = issued + 1
  /\ UNCHANGED <<now, requests, queueVars, streamVars, clientVars,
                 decoderVars, controllerVars>>

\* A call of getSession(token).
GetSession(key) ==
  /\ LET found == getSession(sessions, key, now)
     IN  /\ sessions' = found.sessions
         /\ authOp' = Did("getSession", key, found.session)
  /\ UNCHANGED <<now, issued, requests, queueVars, streamVars, clientVars,
                 decoderVars, controllerVars>>

\* A call of deleteSession(token).
DeleteSession(key) ==
  /\ sessions' = deleteSession(sessions, key)
  /\ authOp' = Did("deleteSession", key, NoSession)
  /\ UNCHANGED <<now, issued, requests, queueVars, streamVars, clientVars,
                 decoderVars, controllerVars>>

\* purgeExpiredSessions()
purgeExpiredSessions ==
  /\ sessions' = [t \in {x \in DOMAIN sessions : ~Expired(sessions[x], now)} |->
                    sessions[t]]
  /\ authOp' = Did("purgeExpiredSessions", Forged, NoSession)
  /\ UNCHANGED <<now, issued, requests, queueVars, streamVars, clientVars,
                 decoderVars, controllerVars>>

\* Time passes.
ClockTick ==
  /\ now < MaxTicks * ClockStep
  /\ now' = now + ClockStep
  /\ authOp' = [authOp EXCEPT !.name = "tick"]
  /\ UNCHANGED <<sessions, issued, requests, queueVars, streamVars,
                 clientVars, decoderVars, controllerVars>>

\* The routes of the router, all of them registered after
\* router.use(requireAuth).
Routes ==
  {"listHomes", "listDevices", "getDeviceStatus", "setDeviceMode",
   "streamDeviceEvents"}

\* The handler of the route, which next() runs.
Handler(route, homeId, deviceId, body, ackThrows) ==
  CASE route = "listHomes" -> listHomes(TRUE)
    [] route = "listDevices" -> listDevices(homeId, TRUE)
    [] route = "getDeviceStatus" -> getDeviceStatus(homeId, deviceId, TRUE)
    [] route = "setDeviceMode" -> setDeviceMode(deviceId, body)
    [] route = "streamDeviceEvents" -> streamDeviceEvents(ackThrows)

\* A request that reached the router.
Routed(route, header, status, code, next) ==
  [route |-> route, header |-> header, status |-> status, code |-> code,
   next |-> next]

\* Mutant: next() is called whatever getSessionFromRequest returned.
Blocked_Never(session) == FALSE

\* if (!session) { ... res.status(401).json(...); return; }
Blocked(session) == session = NoSession

\* A request to a protected route: requireAuth(req, res, next) and, when it
\* calls next(), the handler of the route up to its first await or to its
\* return.
Route(route, header, homeId, deviceId, body, ackThrows) ==
  /\ Len(requests) < MaxRequests
  /\ LET found == getSessionFromRequest(sessions, header, now)
     IN  /\ sessions' = found.sessions
         /\ authOp' = Did("requireAuth", Forged, found.session)
         /\ IF Blocked(found.session)
            THEN /\ requests' = Append(requests,
                                       Routed(route, header, 401,
                                              "UNAUTHENTICATED", FALSE))
                 /\ UNCHANGED <<queueVars, streamVars, clientVars, decoderVars,
                                controllerVars>>
            ELSE /\ requests' = Append(requests,
                                       Routed(route, header, 0, "", TRUE))
                 /\ Handler(route, homeId, deviceId, body, ackThrows)
  /\ UNCHANGED <<now, issued>>

(***************************************************************************)
(* Specification.                                                          *)
(***************************************************************************)
\* The components are explored one at a time: in each specification the
\* actions of one component run and the others are at rest.
QueueInit ==
  /\ queue = << >>
  /\ isProcessing = FALSE
  /\ jobs = << >>
  /\ acks = << >>
  /\ workers = {}
  /\ log = [order |-> << >>, detail |-> << >>]

StreamInit ==
  /\ clients = << >>
  /\ heartbeat = {}
  /\ streams = << >>
  /\ listening = {}
  /\ writes = 0
  /\ op = [name |-> "none", client |-> 0, failed |-> {}, endThrew |-> FALSE,
           raised |-> FALSE]

ClientInit ==
  /\ clientPromise = "unset"
  /\ token = "none"
  /\ tokenPromise = [state |-> "none", answer |-> "", error |-> NoError,
                     token |-> ""]
  /\ logins = << >>
  /\ posts = {}
  /\ invoked = 0
  /\ calls = << >>

DecoderInit ==
  /\ packet = NoPacket
  /\ devices = NotDecoded
  /\ comparison = NoComparison

ControllerInit == responses = << >>

AuthInit ==
  /\ sessions = << >>
  /\ now = 0
  /\ issued = 0
  /\ authOp = [name |-> "none", token |-> Forged, time |-> 0,
               session |-> NoSession]
  /\ requests = << >>

Init ==
  /\ QueueInit /\ StreamInit /\ ClientInit /\ DecoderInit /\ ControllerInit
  /\ AuthInit

Next ==
  \/ \E payload \in Payloads, logFails \in BOOLEAN :
       /\ enqueueCommand(payload, logFails)
       /\ UNCHANGED <<streamVars, clientVars, decoderVars, controllerVars,
                      authVars>>
  \/ \E w \in workers : SetModeResolves(w)
  \/ \E w \in workers, error \in SetModeErrors : SetModeRejects(w, error)
  \/ \E w \in workers, device \in Snapshots : StatusResolves(w, device)
  \/ \E w \in workers : StatusRejects(w)
  \/ \E w \in workers : DelayFires(w)
  \/ \E w \in workers : RunJobSettles(w)
  \/ \E w \in workers : RunJobCrashes(w)

Spec == Init /\ [][Next]_vars

\* Every vendor call eventually resolves or rejects, the delay timer
\* eventually fires and a settled promise eventually resumes its awaiter.
\* Nothing makes a caller call enqueueCommand.
Fairness ==
  /\ WF_vars(\E w \in workers :
               SetModeResolves(w) \/ \E error \in SetModeErrors : SetModeRejects(w, error))
  /\ WF_vars(\E w \in workers :
               StatusRejects(w) \/ \E device \in Snapshots : StatusResolves(w, device))
  /\ WF_vars(\E w \in workers : DelayFires(w))
  /\ WF_vars(\E w \in workers : RunJobSettles(w))
  /\ WF_vars(\E w \in workers : RunJobCrashes(w))

FairSpec == Spec /\ Fairness

\* The event broadcaster.
StreamNext ==
  \/ \E ackThrows \in BOOLEAN : registerClient(ackThrows) /\ UNCHANGED authVars
  \/ \E c \in heartbeat, writeThrows, endThrows \in BOOLEAN :
       HeartbeatTick(c, writeThrows, endThrows)
  \/ \E c \in listening, endThrows \in BOOLEAN : TransportClose(c, endThrows)
  \/ \E fails \in [Range(clients) -> 0..2], endThrows \in BOOLEAN :
       broadcastEvent(fails, endThrows)

StreamSpec == Init /\ [][StreamNext]_vars

\* The vendor service and its client.
ClientNext ==
  \/ \E kind \in Operations, options \in SetModeOptions \cup {NoOptions},
          configured \in BOOLEAN :
       /\ (options # NoOptions <=> kind = "setDeviceMode")
       /\ (~configured => clientPromise = "unset")
       /\ ServiceCall(kind, options, configured)
       /\ UNCHANGED <<controllerVars, authVars>>
  \/ \E i \in DOMAIN calls : ClientResolves(i)
  \/ \E r \in LoginResponses : LoginResponds(r)
  \/ \E i \in DOMAIN calls : TokenResolves(i)
  \/ \E i \in DOMAIN calls : \E r \in ResponsesTo(calls[i].kind) :
       HttpResponds(i, r)

ClientSpec == Init /\ [][ClientNext]_vars

\* The decoding of a data packet: any of the packets explored is decoded.
DecodeInit ==
  /\ QueueInit /\ StreamInit /\ ClientInit /\ ControllerInit /\ AuthInit
  /\ packet \in Packets
  /\ devices = NotDecoded
  /\ comparison = NoComparison

DecodeNext == getDevices

DecodeSpec == DecodeInit /\ [][DecodeNext]_vars

\* The comparison of a snapshot with a payload: any of the pairs explored
\* is compared.
MatchInit ==
  /\ QueueInit /\ StreamInit /\ ClientInit /\ ControllerInit /\ AuthInit
  /\ packet = NoPacket
  /\ devices = NotDecoded
  /\ comparison \in Comparisons

MatchNext == Compare

MatchSpec == MatchInit /\ [][MatchNext]_vars

\* The HTTP controller: requests arrive; the calls of the service and the
\* jobs they start are not run on.
ControllerNext ==
  \/ \E homeId, deviceId \in PathParams, configured \in BOOLEAN :
       /\ (~configured => clientPromise = "unset")
       /\ getDeviceStatus(homeId, deviceId, configured)
       /\ UNCHANGED authVars
  \/ \E deviceId \in PathParams, body \in Bodies :
       setDeviceMode(deviceId, body) /\ UNCHANGED authVars

ControllerSpec == Init /\ [][ControllerNext]_vars

\* The session store: sessions are created, looked up and deleted, expired
\* ones are purged, and time passes.
SessionNext ==
  \/ createSession("ana@example.com")
  \/ \E key \in 0..issued : GetSession(key)
  \/ \E key \in 0..issued : DeleteSession(key)
  \/ purgeExpiredSessions
  \/ ClockTick

SessionSpec == Init /\ [][SessionNext]_vars

\* The protected routes: one session is created, time passes and requests
\* arrive, each one with path parameters and a body that its handler
\* accepts; the calls of the service and the jobs they start are not run
\* on.
RouterNext ==
  \/ issued = 0 /\ createSession("ana@example.com")
  \/ ClockTick
  \/ \E route \in Routes, header \in Headers, body \in RoutedBodies,
          ackThrows \in BOOLEAN :
       Route(route, header, "7", "7", body, ackThrows)

RouterSpec == Init /\ [][RouterNext]_vars

(***************************************************************************)
(* Vocabulary of the properties.                                           *)
(***************************************************************************)
AllJobs == 1..MaxJobs

\* The jobs whose detail the log holds.
Kept == DOMAIN log.detail

\* The positions of log.order where something of the kind happened.
Pos(kind) == {i \in DOMAIN log.order : log.order[i][1] = kind}

\* The job of the entry at position i of log.order.
JobAt(i) == log.order[i][2]

\* How many times something of the kind happened to job j.
Times(kind, j) == Cardinality({i \in Pos(kind) : JobAt(i) = j})

Outcomes(j) == log.detail[j].outcomes

\* The outcome published for job j, when there is one.
Outcome(j) == log.detail[j].outcomes[1]

Queued(j) == \E i \in DOMAIN queue : queue[i] = j

\* Job j was taken from the queue and its runJob has not ended.
Running(j) ==
  \E w \in workers :
    w.job = j /\ w.pc \in {"setMode", "status", "wait", "crashed"}

\* Job j reached a terminal state: it was taken from the queue and its
\* processing has ended.
Terminal(j) == Times("dequeue", j) > 0 /\ ~Running(j)

OneOutcome(j, status, event) ==
  /\ Len(Outcomes(j)) = 1
  /\ Outcome(j).status = status
  /\ Outcome(j).event = event

\* C1: at most one job is being processed at any time, and no job's setMode
\* is issued while a job dequeued before it has no published outcome yet.
C1_AtMostOneInFlight ==
  /\ Cardinality({j \in JobIds : Running(j)}) <= 1
  /\ \A n \in Pos("setMode") : \A i \in Pos("dequeue") :
       (i < n /\ JobAt(i) # JobAt(n))
       => \E m \in Pos("publish") : JobAt(m) = JobAt(i) /\ i < m /\ m < n

\* A job is suspended in its inter-poll delay while two more are queued.
C1_Witness ==
  /\ Len(queue) = 2
  /\ \E w \in workers : w.pc = "wait" /\ w.attempt = 2

\* C2: jobs are processed in enqueue order: dequeues, setMode calls and
\* published outcomes all appear in the order of the job ids (which is the
\* order of the enqueueCommand calls), and no job is dequeued before every
\* job enqueued before it was dequeued.
C2_Fifo ==
  /\ \A kind \in {"dequeue", "setMode", "publish"} :
       \A i, n \in Pos(kind) : JobAt(i) < JobAt(n) => i < n
  /\ \A j \in JobIds : \A a \in 1..j :
       Times("dequeue", j) > 0 => Times("dequeue", a) > 0

\* Three jobs were processed, the second and third enqueued while the first
\* was suspended (the third while the second was still queued).
C2_Witness ==
  /\ Len(jobs) = 3
  /\ \A j \in 1..3 : Terminal(j) /\ Times("setMode", j) = 1
  /\ acks[2].position = 1
  /\ acks[3].position = 2

\* C3: a job in a terminal state has exactly one published outcome (a
\* device-update if completed, a command-error if failed), no job ever has
\* two, and the outcome of a job is published before the next job is
\* dequeued.
C3_ExactlyOneOutcome ==
  /\ \A j \in JobIds :
       /\ Times("publish", j) <= 1
       /\ Terminal(j) => Times("publish", j) = 1
  /\ \A j \in Kept :
       Terminal(j) =>
         \/ OneOutcome(j, "completed", "device-update")
         \/ OneOutcome(j, "failed", "command-error")
  /\ \A i, n \in Pos("dequeue") :
       i < n => \E m \in Pos("publish") : JobAt(m) = JobAt(i) /\ i < m /\ m < n

\* One job completed and the next failed, each with its outcome published,
\* and a third job has been started after them.
C3_Witness ==
  /\ \E a, b \in Kept :
       /\ Terminal(a) /\ OneOutcome(a, "completed", "device-update")
       /\ Terminal(b) /\ OneOutcome(b, "failed", "command-error")
  /\ \E j \in JobIds : Times("dequeue", j) > 0 /\ j > 2

\* C4: under fairness of the vendor, the timer and the promise jobs, every
\* job that was enqueued eventually is in a terminal state, out of the
\* queue, with its outcome published.
C4_EveryJobTerminates ==
  \A j \in AllJobs :
    (j \in JobIds) ~> (Terminal(j) /\ ~Queued(j) /\ Times("publish", j) = 1)

\* A job that was enqueued behind two others has its outcome published.
C4_Witness ==
  \E j \in JobIds :
    acks[j].position = 2 /\ Terminal(j) /\ Times("publish", j) = 1

\* C5: a job whose setMode call was rejected is failed with attempts = 0, no
\* status fetch was issued for it and setMode was called once for it.
C5_SetModeFailureIsTerminal ==
  \A j \in Kept :
    log.detail[j].vendor.setMode = "rejected" =>
      /\ OneOutcome(j, "failed", "command-error")
      /\ Outcome(j).attempts = 0
      /\ Outcome(j).message \in SetModeErrors
      /\ log.detail[j].getDeviceStatus = 0
      /\ log.detail[j].setMode = 1
      /\ Times("setMode", j) = 1

\* The setMode of a job was rejected and the worker has gone on to the next.
C5_Witness ==
  \E j \in Kept :
    /\ log.detail[j].vendor.setMode = "rejected"
    /\ \E i \in JobIds : i > j /\ Running(i)

\* C6: when the first status fetch answered with a matching snapshot is the
\* k-th fetch of the job, exactly k fetches were issued for the job and its
\* only outcome is a device-update, completed, with attempts = k and that
\* snapshot.
C6_MatchAtAttemptK ==
  \A j \in Kept :
    LET d == log.detail[j]
    IN  d.vendor.firstMatch > 0 =>
          /\ d.vendor.firstMatch <= MAX_ATTEMPTS
          /\ d.getDeviceStatus = d.vendor.firstMatch
          /\ d.vendor.answers = d.vendor.firstMatch
          /\ OneOutcome(j, "completed", "device-update")
          /\ Outcome(j).attempts = d.vendor.firstMatch
          /\ Outcome(j).device = toJSON(d.vendor.last)
          /\ matchesExpected(Outcome(j).device, jobs[j].payload)

\* One job matched on its 2nd poll and the next on its 6th.
C6_Witness ==
  \E a, b \in Kept :
    /\ log.detail[a].vendor.firstMatch = 2
    /\ log.detail[b].vendor.firstMatch = MAX_ATTEMPTS
    /\ Terminal(a) /\ Terminal(b)

\* C7: a terminal job whose setMode resolved, none of whose fetches was
\* answered with a matching snapshot and one of whose fetches was answered
\* with a snapshot, had 6 fetches and is completed with attempts = 6 and the
\* snapshot of the most recent fetch that returned one.
C7_ExhaustedKeepsLastSnapshot ==
  \A j \in Kept :
    LET d == log.detail[j]
    IN  (/\ Terminal(j)
         /\ d.vendor.setMode = "resolved"
         /\ d.vendor.firstMatch = 0
         /\ d.vendor.last # NoDevice)
        => /\ d.vendor.answers = MAX_ATTEMPTS
           /\ d.getDeviceStatus = MAX_ATTEMPTS
           /\ OneOutcome(j, "completed", "device-update")
           /\ Outcome(j).attempts = MAX_ATTEMPTS
           /\ Outcome(j).device = toJSON(d.vendor.last)

\* A job ran out of attempts; its 6th fetch was rejected, so that its last
\* snapshot came from an earlier fetch, and does not match its payload.
C7_Witness ==
  \E j \in Kept :
    /\ Terminal(j)
    /\ log.detail[j].vendor.firstMatch = 0
    /\ log.detail[j].vendor.last # NoDevice
    /\ log.detail[j].vendor.rejected
    /\ log.detail[j].vendor.answers = MAX_ATTEMPTS
    /\ ~matchesExpected(log.detail[j].vendor.last, jobs[j].payload)

\* C8: a terminal job whose setMode resolved and none of whose fetches was
\* answered with a snapshot had 6 fetches and is failed with the
\* status-unavailable error and attempts = 0, published as a command-error.
C8_StatusUnavailable ==
  \A j \in Kept :
    LET d == log.detail[j]
    IN  (/\ Terminal(j)
         /\ d.vendor.setMode = "resolved"
         /\ d.vendor.last = NoDevice)
        => /\ d.vendor.answers = MAX_ATTEMPTS
           /\ d.getDeviceStatus = MAX_ATTEMPTS
           /\ OneOutcome(j, "failed", "command-error")
           /\ Outcome(j).attempts = 0
           /\ Outcome(j).message = StatusUnavailable

\* All 6 fetches of a job were rejected and the job has ended.
C8_Witness ==
  \E j \in Kept :
    /\ Terminal(j)
    /\ log.detail[j].vendor.setMode = "resolved"
    /\ log.detail[j].vendor.answers = MAX_ATTEMPTS
    /\ log.detail[j].vendor.last = NoDevice

\* Job i is failing: its runJob threw, or ended with a failed outcome, and
\* processQueue has not resumed yet.
Failing(i) ==
  \E w \in workers :
    /\ w.job = i
    /\ \/ w.pc = "crashed"
       \/ /\ w.pc = "settled"
          /\ i \in Kept
          /\ Len(Outcomes(i)) > 0
          /\ Outcome(i).status = "failed"

\* The processing of job i went wrong: its logger threw, its setMode was
\* rejected, or none of its status fetches returned a snapshot.
WentWrong(i) ==
  \/ jobs[i].logFails
  \/ log.detail[i].vendor.setMode = "rejected"
  \/ /\ log.detail[i].vendor.setMode = "resolved"
     /\ log.detail[i].vendor.last = NoDevice

\* C9: a terminal job whose processing went wrong has exactly one outcome,
\* failed; and under fairness every job that is queued while a job is
\* failing eventually reaches a terminal state with its outcome published.
C9_FailureDoesNotStopWorker ==
  /\ [](\A i \in Kept :
          (Terminal(i) /\ WentWrong(i)) => OneOutcome(i, "failed", "command-error"))
  /\ \A j \in AllJobs :
       ((\E i \in JobIds : Failing(i)) /\ Queued(j))
         ~> (Terminal(j) /\ Times("publish", j) = 1)

\* The logger of the first job threw while two jobs were queued behind it,
\* and the last of them has ended.
C9_Witness ==
  /\ Len(jobs) = 3
  /\ jobs[1].logFails
  /\ acks[2].position = 1
  /\ acks[3].position = 2
  /\ Terminal(3)
  /\ Times("publish", 1) = 1

\* C10: the position enqueueCommand returns is the queue depth it logged
\* right after appending the job.
C10_PositionIsQueueDepth ==
  \A j \in JobIds : acks[j].position = acks[j].queueDepth

Registered(c) == c \in Range(clients)

Frames(c) == streams[c].frames

\* The step is a broadcastEvent call, a transport close, a registerClient
\* call that returned.
IsBroadcast == op'.name = "broadcastEvent" /\ writes' = writes + 1

IsClose == op'.name = "close" /\ listening' = listening \ {op'.client}

IsRegistration == op'.name = "registerClient" /\ Len(streams') = Len(streams) + 1

\* C12: a broadcastEvent call made with the clients F throwing on a write
\* appends the two lines of the event, once, to the stream of every
\* registered client not in F; removes exactly the clients of F from the
\* registry, in place, with their timers cancelled and their streams
\* closed; leaves connectedClients() at n - |F|; and writes the data line
\* to no client of F.
C12_FanOut ==
  [][IsBroadcast =>
       LET F == op'.failed
           k == writes'
       IN  /\ F \subseteq Range(clients)
           /\ clients' = SelectSeq(clients, LAMBDA c : c \notin F)
           /\ Len(clients') = Len(clients) - Cardinality(F)
           /\ heartbeat' = heartbeat \ F
           /\ \A c \in Range(clients) \ F :
                streams'[c] = [streams[c] EXCEPT
                                 !.frames = @ \o <<EventLine(k), DataLine(k)>>]
           /\ \A c \in F :
                /\ streams'[c].ends = streams[c].ends + 1
                /\ DataLine(k) \notin Range(streams'[c].frames)
           /\ \A c \in DOMAIN streams \ Range(clients) : streams'[c] = streams[c]
           /\ ~op'.raised]_vars

\* Of three subscribers the second threw on its write: the first and the
\* third have the event and are the registry.
C12_Witness ==
  /\ op.name = "broadcastEvent"
  /\ op.failed = {2}
  /\ clients = <<1, 3>>
  /\ \A c \in {1, 3} : Frames(c) = <<Connected, EventLine(1), DataLine(1)>>
  /\ DataLine(1) \notin Range(Frames(2))

\* C13: a transport close of a client that is not in the registry changes
\* neither the registry nor a timer nor a stream (its stream is not closed
\* again), and no stream is ever closed twice.
C13_UnsubscribeIdempotent ==
  /\ [](\A c \in DOMAIN streams : streams[c].ends <= 1)
  /\ [][(IsClose /\ op'.client \notin Range(clients))
         => (UNCHANGED <<clients, heartbeat, streams>> /\ ~op'.raised)]_vars

\* The transport of a client closed after the client had been removed in a
\* broadcast, where its second write threw; another client is registered.
C13_Witness ==
  /\ op.name = "close"
  /\ Frames(op.client) = <<Connected, EventLine(1)>>
  /\ streams[op.client].ends = 1
  /\ \E c \in Range(clients) : DataLine(1) \in Range(Frames(c))

\* C14: between operations, the clients whose heartbeat timer is active are
\* the clients of the registry; a client that was created is out of the
\* registry exactly when its stream was closed; and an operation that
\* removed a client did so whether or not res.end() threw, without
\* throwing.
C14_TimerIffRegistered ==
  /\ heartbeat = Range(clients)
  /\ \A c \in DOMAIN streams : Registered(c) <=> streams[c].ends = 0
  /\ \A c \in op.failed : ~Registered(c) /\ c \notin heartbeat
  /\ op.endThrew => ~op.raised

\* A heartbeat write threw and so did the close of the stream: the client
\* is gone, with its timer, and another client is registered.
C14_Witness ==
  /\ op.name = "heartbeat"
  /\ op.failed = {op.client}
  /\ op.endThrew
  /\ ~Registered(op.client)
  /\ clients # << >>

\* C15: no operation of the broadcaster throws to its caller.
C15_NeverRaises == ~op.raised

\* C16: a registerClient call that returns appends the new client to the
\* registry (one more client, the others in place), starts its timer and
\* leaves every other stream as it was; the stream of the new client holds
\* the acknowledgement alone; and in every state the first frame of every
\* client's stream is the acknowledgement, written once.
C16_SubscribeRegisters ==
  /\ [][IsRegistration =>
          LET c == op'.client
          IN  /\ ~op'.raised
              /\ clients' = Append(clients, c)
              /\ Len(clients') = Len(clients) + 1
              /\ c \notin heartbeat
              /\ heartbeat' = heartbeat \cup {c}
              /\ streams'[c] = [frames |-> <<Connected>>, ends |-> 0]
              /\ \A x \in DOMAIN streams : streams'[x] = streams[x]]_vars
  /\ [](\A c \in DOMAIN streams :
          /\ Frames(c) # << >>
          /\ Frames(c)[1] = Connected
          /\ \A i \in 2..Len(Frames(c)) : Frames(c)[i] # Connected)

\* A third client subscribed after an event had been sent to the first
\* two, one of which was removed in it.
C16_Witness ==
  /\ op.name = "registerClient"
  /\ ~op.raised
  /\ op.client = 3
  /\ clients = <<1, 3>>
  /\ Frames(1) = <<Connected, EventLine(1), DataLine(1)>>
  /\ Frames(3) = <<Connected>>

\* The step is a heartbeat callback whose write threw.
IsHeartbeatFailure == op'.name = "heartbeat" /\ op'.failed # {}

\* C32: a heartbeat callback whose write throws removes exactly its own
\* client from the registry, in place, cancels that client's timer and
\* closes its stream, leaving every other client, timer and stream as it
\* was, and does not throw; and a client that is out of the registry stays
\* out of it, has no timer, and no frame is ever written to its stream
\* again.
C32_HeartbeatFailureRemoves ==
  /\ [][IsHeartbeatFailure =>
          LET c == op'.client
          IN  /\ op'.failed = {c}
              /\ c \in Range(clients) /\ c \in heartbeat
              /\ clients' = SelectSeq(clients, LAMBDA x : x # c)
              /\ heartbeat' = heartbeat \ {c}
              /\ streams'[c] = [streams[c] EXCEPT !.ends = @ + 1]
              /\ \A x \in DOMAIN streams \ {c} : streams'[x] = streams[x]
              /\ ~op'.raised]_vars
  /\ [][\A c \in DOMAIN streams \ Range(clients) :
          /\ c \notin Range(clients')
          /\ c \notin heartbeat'
          /\ streams'[c].frames = streams[c].frames]_vars

\* An event was broadcast after the heartbeat write of a client had thrown
\* (its transport has not closed, and no write of the broadcast threw): the
\* stream of that client holds the acknowledgement alone, and a client
\* that is registered has the event.
C32_Witness ==
  /\ op.name = "broadcastEvent"
  /\ op.failed = {}
  /\ \E c \in listening :
       /\ ~Registered(c)
       /\ c \notin heartbeat
       /\ streams[c].ends = 1
       /\ Frames(c) = <<Connected>>
  /\ \E x \in Range(clients) : Frames(x) = <<Connected, EventLine(1), DataLine(1)>>

\* The frames of the stream of client c before the step (none: the step
\* creates the client), and the lines of an event among frames.
FramesBefore(c) == IF c \in DOMAIN streams THEN streams[c].frames ELSE << >>

IsEventFrame(frame) == frame[1] \in {"event", "data"}

\* C36: a line of an event is written to a stream only in the
\* broadcastEvent call that publishes that event, and only to a client
\* that is in the registry when the call is made; so a client registered
\* after the call, or removed before it, never has a line of the event.
C36_OnlyCurrentSubscribers ==
  [][\A c \in DOMAIN streams' :
       \A n \in DOMAIN streams'[c].frames :
         (n > Len(FramesBefore(c)) /\ IsEventFrame(streams'[c].frames[n]))
           => /\ IsBroadcast
              /\ c \in Range(clients)
              /\ streams'[c].frames[n][2] = writes']_vars

\* An event was published while the second of three clients was the only
\* one registered: the first, removed before, and the third, registered
\* after, have the acknowledgement alone.
C36_Witness ==
  /\ op.name = "registerClient"
  /\ op.client = 3
  /\ clients = <<2, 3>>
  /\ streams[1].ends = 1
  /\ Frames(1) = <<Connected>>
  /\ Frames(2) = <<Connected, EventLine(1), DataLine(1)>>
  /\ Frames(3) = <<Connected>>

(***************************************************************************)
(* Vocabulary of the properties of the vendor service and its client.      *)
(***************************************************************************)
CallIds == DOMAIN calls

\* Service call i has ended.
Ended(i) == calls[i].pc = "done"

\* Service call i posted its request and the transport answered it with r.
AnsweredWith(i, r) == Ended(i) /\ calls[i].answer = r

\* Service call i ended with the error of the login, which the transport
\* had answered with r.
EndedByLogin(i, r) ==
  /\ Ended(i)
  /\ calls[i].answer = ""
  /\ tokenPromise.state = "rejected"
  /\ tokenPromise.answer = r
  /\ calls[i].result.cause = tokenPromise.error

\* The failures of a request: a non-2xx response, or no response.
Failures == {"status", "noResponse"}

\* C17: the client posts at most one login request, and only when it is
\* constructed: no step of an operation adds one, also not after the vendor
\* answered a request made with the token with a failure status; every
\* operation that posted its request did so with the token of that login;
\* and while the login is pending no operation has posted anything.
C17_AtMostOneLogin ==
  /\ [](/\ Len(logins) <= 1
        /\ \A i \in CallIds :
             (calls[i].pc = "http" \/ calls[i].answer # "")
               => /\ Len(logins) = 1
                  /\ tokenPromise.state = "fulfilled"
                  /\ token = tokenPromise.token
        /\ tokenPromise.state = "pending" => (posts = {} /\ Len(logins) = 1))
  /\ [][Len(logins') > Len(logins) => clientPromise = "unset"]_vars

\* Two operations, started while the login was pending, are suspended on
\* it and one login request was posted.
C17_Witness ==
  /\ tokenPromise.state = "pending"
  /\ Len(calls) = 2
  /\ \A i \in CallIds : calls[i].pc = "token"
  /\ invoked = 2
  /\ Len(logins) = 1

\* C18: a login request was posted only if an operation was invoked on the
\* client before it.
C18_LazyLogin == \A n \in DOMAIN logins : logins[n].after > 0

\* C19: a getDeviceStatus whose data packet lacks the device ends with
\* NOT_FOUND, answered with 404.
C19_AbsentDeviceIsNotFound ==
  \A i \in CallIds :
    (calls[i].kind = "getDeviceStatus" /\ AnsweredWith(i, "absent"))
      => (calls[i].result.code = "NOT_FOUND" /\ calls[i].result.status = 404)

\* C20: an operation whose request, or whose login request, got a non-2xx
\* response or no response ends with a BGHApiError, code UPSTREAM_ERROR.
C20_FailuresAreUpstream ==
  \A i \in CallIds : \A r \in Failures :
    (AnsweredWith(i, r) \/ EndedByLogin(i, r))
      => /\ InstanceOf(calls[i].result.cause, "BGHApiError")
         /\ calls[i].result.code = "UPSTREAM_ERROR"


\* The value of data.d holds a token the client can use: a string that is
\* not empty, or an object whose Token is a string.
Usable(d) ==
  \/ d.type = "string" /\ d.text # ""
  \/ d.type = "object" /\ d.tokenType = "string"

\* The token such a value holds.
TokenIn(d) == IF d.type = "string" THEN d.text ELSE d.tokenText

\* The login was answered with r and failed with an authentication error.
AuthenticationFailed(r) ==
  /\ tokenPromise.answer = r
  /\ tokenPromise.state = "rejected"
  /\ tokenPromise.error.class = "BGHAuthenticationError"

\* C21: a login answered with a 2xx response whose d holds no usable token
\* (it is missing or empty, or it is neither a string nor an object with a
\* string Token), or answered with a failure status, fails with a
\* BGHAuthenticationError; a login answered with a usable token succeeds
\* and yields that token, which is the one operations then use.
C21_LoginOutcome ==
  /\ \A r \in DOMAIN LoginData :
       tokenPromise.answer = r
         => IF Usable(LoginData[r])
            THEN /\ tokenPromise.state = "fulfilled"
                 /\ tokenPromise.token = TokenIn(LoginData[r])
                 /\ token \in {"none", TokenIn(LoginData[r])}
            ELSE AuthenticationFailed(r) /\ token = "none"
  /\ tokenPromise.answer = "status" => AuthenticationFailed("status")

\* The login was answered with an object whose Token is a number and an
\* operation that waited for the token ended with the authentication
\* error.
C21_Witness ==
  /\ AuthenticationFailed("numberToken")
  /\ \E i \in CallIds : calls[i].result.code = "AUTHENTICATION_ERROR"

\* The mode or the fan of setDeviceMode call i is not one of the table.
UnknownOption(i) ==
  /\ calls[i].kind = "setDeviceMode"
  /\ \/ calls[i].options.mode \notin DOMAIN HVAC_MODES
     \/ calls[i].options.fan \notin DOMAIN FAN_MODES

\* C22: a setMode whose mode or fan is not one of the table ends with the
\* error of the local check and posts no request: it is never suspended on
\* the token or on a request, and no request is recorded for it.
C22_UnknownOptionIsLocal ==
  \A i \in CallIds :
    UnknownOption(i)
      => /\ calls[i].pc \in {"client", "done"}
         /\ \A request \in posts : request.call # i
         /\ (Ended(i) /\ clientPromise = "client")
              => calls[i].result.cause.class = "Error"

\* The login of the client has failed.
LoginFailed == clientPromise = "client" /\ tokenPromise.state = "rejected"

\* Service call i ends in the step.
Ends(i) == calls[i].pc # "done" /\ calls'[i].pc = "done"

\* Once the login has failed it stays failed with the same error, no login
\* request and no other request is posted, and the client has no token.
StaysFailed ==
  /\ tokenPromise' = tokenPromise
  /\ clientPromise' = clientPromise
  /\ logins' = logins
  /\ posts' = posts
  /\ token' = token /\ token = "none"

Nearest(t) == CHOOSE n \in -100..100 : 10 * n - 5 <= t /\ t < 10 * n + 5

\* The key has no defined code in the table, or the code is the one read.
CodeAgrees(table, key, code) ==
  Lookup(table, key) = Undefined \/ code = Lookup(table, key)

\* A comparison was made.
Compared == comparison.result \in {"match", "mismatch"}

Decoded == devices.done

\* The entries of Endpoints that bear a numeric identifier, the identifiers
\* they bear and the identifiers of the snapshots returned.
NumericEntries ==
  {n \in DOMAIN packet.Endpoints : packet.Endpoints[n].type = "number"}

NumericIds == {packet.Endpoints[n].EndpointID : n \in NumericEntries}

SnapshotIds == {device.deviceId : device \in devices.map}

\* The last entry that bears the identifier.
LastEntry(id) ==
  CHOOSE n \in NumericEntries :
    /\ packet.Endpoints[n].EndpointID = id
    /\ \A m \in NumericEntries : packet.Endpoints[m].EndpointID = id => m <= n

\* The values of entry n: none when EndpointValues has no such entry or its
\* Values is not an array.
ValuesOf(n) ==
  IF n \in DOMAIN packet.EndpointValues /\ packet.EndpointValues[n].isArray
  THEN packet.EndpointValues[n].Values
  ELSE << >>

\* C24 as stated: getDevices returns as many snapshots as the packet has
\* endpoints with a numeric identifier.
C24_OneSnapshotPerEndpoint ==
  Decoded => Cardinality(devices.map) = Cardinality(NumericEntries)

\* C24, amended: getDevices returns one snapshot for every numeric
\* identifier borne by an endpoint, decoded from the last endpoint that
\* bears it, and no other snapshot: as many snapshots as there are distinct
\* numeric identifiers.
C24_OneSnapshotPerIdentifier ==
  Decoded =>
    /\ SnapshotIds = NumericIds
    /\ Cardinality(devices.map) = Cardinality(NumericIds)
    /\ \A device \in devices.map :
         device = DeviceStatus(device.deviceId,
                               MetadataAt(packet, LastEntry(device.deviceId)),
                               parseRawValues(ValuesOf(LastEntry(device.deviceId))))

\* Two endpoints bear the identifier 7; the one snapshot returned has the
\* mode of the second and no temperature, which only the first reports.
C24_Witness ==
  /\ Decoded
  /\ packet.Endpoints = <<RawEndpoint("number", 7), RawEndpoint("number", 7)>>
  /\ packet.EndpointValues =
       <<Group(TRUE, <<Item(VALUE_TYPE_TEMPERATURE, "number", "21.5")>>),
         Group(TRUE, <<Item(VALUE_TYPE_MODE, "number", "1")>>)>>
  /\ packet.Devices = << >>
  /\ devices.map = {[deviceId |-> 7, model |-> NoString,
                     serialNumber |-> NoString, rawDevice |-> EmptyObject,
                     temperature |-> Null,
                     targetTemperature |-> Null, fanSpeed |-> Null,
                     modeId |-> 10]}


\* The values the snapshot was decoded from.
Source(device) == ValuesOf(LastEntry(device.deviceId))

\* The pairs of the value type among the values, by position.
PairsOf(values, valueType) ==
  {n \in DOMAIN values : values[n].ValueType = valueType}

\* The value of the first pair of the value type (there is one).
FirstValue(values, valueType) ==
  values[CHOOSE n \in PairsOf(values, valueType) :
           \A m \in PairsOf(values, valueType) : n <= m].Value

\* The value is a number, or a string that reads as one; and that number,
\* in tenths.
RawNumber(value) ==
  value.type \in {"number", "string"} /\ value.text \in DOMAIN Decimals

Raw(value) == Decimals[value.text]

\* The field of the snapshot each value type is decoded into.
FieldOf ==
  (13 :> "temperature") @@ (20 :> "targetTemperature") @@
  (15 :> "fanSpeed") @@ (14 :> "modeId")

\* What a raw number of the value type is expected to decode to.
Reading(valueType, n) ==
  CASE valueType = 13 -> IF n <= -500 THEN Null ELSE n
    [] valueType = 20 -> IF n = 2550 THEN 200 ELSE n
    [] OTHER -> n

\* C25: each of the fields temperature, targetTemperature, fanSpeed and
\* modeId of a snapshot is decoded from the first pair of its value type
\* (13, 20, 15, 14), whatever later pairs of that type say; and it is null,
\* not zero, when the values have no pair of that type.
C25_FirstPairOfEachType ==
  Decoded =>
    \A device \in devices.map : \A valueType \in DOMAIN FieldOf :
      LET values == Source(device)
          field == device[FieldOf[valueType]]
      IN  IF PairsOf(values, valueType) = {}
          THEN field = Null /\ field # 0
          ELSE RawNumber(FirstValue(values, valueType))
                 => field = Reading(valueType, Raw(FirstValue(values, valueType)))

\* Two pairs of type 15, the first one 3 and the second one 0, and no pair
\* of another type: the fan speed is 3 and the other fields are null.
C25_Witness ==
  /\ Decoded
  /\ packet.EndpointValues =
       <<Group(TRUE, <<Item(15, "number", "3"), Item(15, "number", "0")>>)>>
  /\ devices.map = {[deviceId |-> 7, model |-> NoString,
                     serialNumber |-> NoString, rawDevice |-> EmptyObject,
                     temperature |-> Null,
                     targetTemperature |-> Null, fanSpeed |-> 30,
                     modeId |-> Null]}

\* C26: an ambient temperature whose raw value is a number at or below -50
\* is decoded as null, and one whose raw value is a number above -50 as
\* that number.
C26_AmbientSentinel ==
  Decoded =>
    \A device \in devices.map :
      LET values == Source(device)
      IN  (/\ PairsOf(values, 13) # {}
           /\ RawNumber(FirstValue(values, 13)))
            => LET n == Raw(FirstValue(values, 13))
               IN  /\ n <= -500 => device.temperature = Null
                   /\ n > -500 => device.temperature = n

\* A raw temperature of exactly -50 was decoded as null.
C26_Witness ==
  /\ Decoded
  /\ packet.EndpointValues = <<Group(TRUE, <<Item(13, "number", "-50")>>)>>
  /\ \E device \in devices.map : device.temperature = Null

\* C27: a target temperature whose raw value is the number 255 is decoded
\* as 20, and one whose raw value is another number as that number.
C27_TargetSentinel ==
  Decoded =>
    \A device \in devices.map :
      LET values == Source(device)
      IN  (/\ PairsOf(values, 20) # {}
           /\ RawNumber(FirstValue(values, 20)))
            => LET n == Raw(FirstValue(values, 20))
               IN  /\ n = 2550 => device.targetTemperature = 200
                   /\ n # 2550 => device.targetTemperature = n

\* A raw target temperature of 255 was decoded as 20.
C27_Witness ==
  /\ Decoded
  /\ packet.EndpointValues = <<Group(TRUE, <<Item(20, "number", "255")>>)>>
  /\ \E device \in devices.map : device.targetTemperature = 200

\* The snapshot returned for the identifier (there is one).
SnapshotOf(id) == CHOOSE device \in devices.map : device.deviceId = id

\* The four fields decoded from the values.
Decodings(device) ==
  [temperature |-> device.temperature,
   targetTemperature |-> device.targetTemperature,
   fanSpeed |-> device.fanSpeed,
   modeId |-> device.modeId]

\* C31: the snapshot of the endpoint at position n is built from the value
\* group at position n and the metadata at position n, whatever entries
\* before it were skipped; where EndpointValues has no entry n the four
\* decoded fields are null, and where Devices has no entry n the snapshot
\* has no model, no serial number and an empty object as metadata.  (Of the
\* endpoints that bear one identifier the last is the one the snapshot
\* stands for.)
C31_PairedByPosition ==
  Decoded =>
    \A n \in NumericEntries :
      LET id == packet.Endpoints[n].EndpointID
          device == SnapshotOf(id)
      IN  n = LastEntry(id) =>
            /\ id \in SnapshotIds
            /\ Decodings(device) = parseRawValues(ValuesOf(n))
            /\ n \notin DOMAIN packet.EndpointValues =>
                 Decodings(device) = [temperature |-> Null,
                                      targetTemperature |-> Null,
                                      fanSpeed |-> Null, modeId |-> Null]
            /\ IF n \in DOMAIN packet.Devices
               THEN /\ device.model = packet.Devices[n].DeviceModel
                    /\ device.serialNumber = packet.Devices[n].Address
                    /\ device.rawDevice = packet.Devices[n]
               ELSE /\ device.model = NoString
                    /\ device.serialNumber = NoString
                    /\ device.rawDevice = EmptyObject

\* The first endpoint has no identifier and is skipped; the snapshot of the
\* second has the mode of the second value group, not the temperature of
\* the first, and no metadata, Devices having one entry only.
C31_Witness ==
  /\ Decoded
  /\ packet.Endpoints = <<RawEndpoint("undefined", 0), RawEndpoint("number", 7)>>
  /\ packet.EndpointValues =
       <<Group(TRUE, <<Item(VALUE_TYPE_TEMPERATURE, "number", "21.5")>>),
         Group(TRUE, <<Item(VALUE_TYPE_MODE, "number", "1")>>)>>
  /\ packet.Devices = <<RawDevice("BGH-A", "S-1")>>
  /\ devices.map = {[deviceId |-> 7, model |-> NoString,
                     serialNumber |-> NoString, rawDevice |-> EmptyObject,
                     temperature |-> Null, targetTemperature |-> Null,
                     fanSpeed |-> Null, modeId |-> 10]}


(***************************************************************************)
(* Vocabulary of the properties of the controller.                         *)
(***************************************************************************)
\* The text is a numeral.
Numeral(text) == text \in DOMAIN Decimals

\* The request has an invalid input: a path parameter that is no numeral,
\* or, for a mode change, a body without a numeric homeId, without a mode
\* of the table, without a numeric targetTemperature, or with a fan that
\* is not of the table.
InvalidInput(request) ==
  IF request.route = "getDeviceStatus"
  THEN ~Numeral(request.params.homeId) \/ ~Numeral(request.params.deviceId)
  ELSE \/ ~Numeral(request.params.deviceId)
       \/ request.body.homeId.type # "number"
       \/ request.body.mode.type # "string"
       \/ request.body.mode.text \notin DOMAIN HVAC_MODES
       \/ request.body.targetTemperature.type # "number"
       \/ /\ request.body.fan.type = "string"
          /\ request.body.fan.text # ""
          /\ request.body.fan.text \notin DOMAIN FAN_MODES

\* C28: a request with an invalid input is answered with 400, calls no
\* service and enqueues no job.
C28_InvalidInputRejected ==
  /\ \A n \in DOMAIN responses :
       InvalidInput(responses[n])
         => /\ responses[n].status = 400
            /\ ~responses[n].called
            /\ responses[n].job = 0
  /\ (\A n \in DOMAIN responses : InvalidInput(responses[n]))
       => (jobs = << >> /\ calls = << >>)


(***************************************************************************)
(* Properties of the calls and the delays of a job.                        *)
(***************************************************************************)
\* The per-job step of job j fails before it calls the vendor.
Crashes(j) == jobs[j].logFails

\* The number of status fetches and of delays of a job whose detail is kept.
Fetches(j) == log.detail[j].getDeviceStatus

Delays(j) == log.detail[j].delay

\* What holds of the status fetches of every job: at most 6 are issued, and
\* between 1 and 6 once setMode succeeded; every fetch, failed or not, is
\* an attempt; and after a failed fetch that was not the 6th attempt the
\* next step of the job issues another fetch.
FetchesBounded ==
  /\ [](\A j \in Kept :
          /\ Fetches(j) <= MAX_ATTEMPTS
          /\ log.detail[j].vendor.setMode = "resolved"
               => (1 <= Fetches(j) /\ Fetches(j) <= MAX_ATTEMPTS)
          /\ log.detail[j].vendor.setMode # "resolved" => Fetches(j) = 0
          /\ \A w \in workers :
               (w.job = j /\ w.pc \in {"status", "wait"}) => Fetches(j) = w.attempt)
  /\ [][\A w \in workers :
          (/\ w.pc = "wait"
           /\ log.detail[w.job].vendor.rejected
           /\ w.attempt < MAX_ATTEMPTS
           /\ w \notin workers')
            => /\ log'.detail[w.job].getDeviceStatus = Fetches(w.job) + 1
               /\ \E v \in workers' : v.job = w.job /\ v.pc = "status"]_vars

\* C29 as stated: setMode is called exactly once for every job (once the
\* job has been processed), and the status fetches are bounded as above.
C29_SetModeOncePerJob ==
  /\ [](\A j \in JobIds :
          /\ Times("setMode", j) <= 1
          /\ Terminal(j) => Times("setMode", j) = 1)
  /\ FetchesBounded

\* C29, amended: setMode is called at most once for every job: exactly once
\* for a job whose per-job step reaches the call, from the moment the step
\* starts, and never for a job whose step fails before the call; the
\* status fetches are bounded as above.
C29_SetModeAtMostOncePerJob ==
  /\ [](\A j \in JobIds :
          /\ Times("setMode", j) <= 1
          /\ (Times("dequeue", j) > 0 /\ ~Crashes(j)) => Times("setMode", j) = 1
          /\ Crashes(j) => Times("setMode", j) = 0)
  /\ FetchesBounded

\* A job whose first five fetches failed issued its sixth fetch, after a
\* job whose step had failed before the call of setMode.
C29_Witness ==
  \E j \in Kept :
    /\ Fetches(j) = MAX_ATTEMPTS
    /\ log.detail[j].vendor.answers = MAX_ATTEMPTS - 1
    /\ log.detail[j].vendor.rejected
    /\ Times("setMode", j) = 1
    /\ \E i \in JobIds : i < j /\ Crashes(i) /\ Terminal(i)

\* C30: a job that has been processed and issued status fetches took one
\* delay less than it issued fetches.
C30_DelaysBetweenFetches ==
  \A j \in Kept :
    (Terminal(j) /\ Fetches(j) > 0) => Delays(j) = Fetches(j) - 1


(***************************************************************************)
(* Vocabulary of the properties of the session store and of the guard of   *)
(* the protected routes.                                                   *)
(***************************************************************************)
\* The session of the token is in the store and the time is strictly
\* before its expiry.
Alive(key, time) == key \in DOMAIN sessions /\ time < sessions[key].expiresAt

\* C38: a lookup at time t of a token whose session is in the store with t
\* strictly before its expiry returns that session with its expiry moved to
\* t plus the TTL, and stores it so; any other lookup returns nothing and
\* leaves the store without a session of that token, the other sessions as
\* they were; after deleteSession the store has no session of the token; a
\* token whose session left the store never has one again; and the store
\* holds sessions of tokens that were created only.
C38_NeverExpiredOrDeleted ==
  /\ [][authOp'.name = "getSession" =>
          LET key == authOp'.token
              t == authOp'.time
          IN  /\ t = now
              /\ IF Alive(key, t)
                 THEN /\ authOp'.session =
                           [sessions[key] EXCEPT !.expiresAt = t + SESSION_TTL_MS]
                      /\ sessions' = [sessions EXCEPT ![key] = authOp'.session]
                 ELSE /\ authOp'.session = NoSession
                      /\ key \notin DOMAIN sessions'
                      /\ \A x \in DOMAIN sessions \ {key} :
                           x \in DOMAIN sessions' /\ sessions'[x] = sessions[x]]_vars
  /\ [][authOp'.name = "deleteSession" =>
          authOp'.token \notin DOMAIN sessions']_vars
  /\ [][\A key \in 1..issued :
          key \notin DOMAIN sessions => key \notin DOMAIN sessions']_vars
  /\ [](DOMAIN sessions \subseteq 1..issued)

\* A lookup returned a session at a time at which it would have expired
\* had an earlier lookup not moved its expiry.
C38_Witness ==
  /\ authOp.name = "getSession"
  /\ authOp.session # NoSession
  /\ authOp.time >= authOp.session.createdAt + SESSION_TTL_MS
  /\ sessions[authOp.token].expiresAt = authOp.time + SESSION_TTL_MS


\* The step is a request reaching the router, and that request.
IsRequest == Len(requests') = Len(requests) + 1

Arrived == requests'[Len(requests')]

\* The Cookie header carries the token as its session cookie.
Carries(header, key) ==
  \E i \in DOMAIN header : header[i] = Cookie(SESSION_COOKIE_NAME, key)

\* The request carries the token of a session that is in the store and has
\* not expired.
Authenticated(header) ==
  \E key \in DOMAIN sessions : Carries(header, key) /\ Alive(key, now)

IsEnqueue == Len(jobs') = Len(jobs) + 1

Enqueued == Len(jobs')

\* C34: between operations, the flag is set exactly when an invocation of
\* processQueue is suspended, and the queue is empty when the flag is not
\* set, so that a queued job always has a worker; and a job enqueued while
\* the flag is set, the worker awaiting a job that is finishing included,
\* is appended to the queue of that worker, while a job enqueued when the
\* flag is not set is taken at once by a new worker.
C34_IdleMeansEmpty ==
  /\ [](/\ isProcessing <=> workers # {}
        /\ ~isProcessing => queue = << >>
        /\ queue # << >> => workers # {})
  /\ [][IsEnqueue =>
          IF isProcessing
          THEN /\ queue' = Append(queue, Enqueued)
               /\ workers' = workers
               /\ isProcessing'
          ELSE /\ queue = << >> /\ queue' = << >>
               /\ isProcessing'
               /\ \E w \in workers' : w.job = Enqueued]_vars

\* The runJob of job 1 has ended and its worker has not resumed; job 2,
\* enqueued after the worker had taken job 1, is in the queue and the flag
\* is set.
C34_Witness ==
  /\ isProcessing
  /\ queue = <<2>>
  /\ workers = {w \in workers : w.job = 1 /\ w.pc = "settled"}
  /\ workers # {}
  /\ Len(acks) = 2 /\ acks[2].queueDepth = 1


\* The outcomes published for the jobs whose history is kept.
Published == UNION {{<<j, n>> : n \in DOMAIN Outcomes(j)} : j \in Kept}

OutcomeAt(jn) == Outcomes(jn[1])[jn[2]]

\* C37: a completed outcome has attempts in 1..6 and, when its attempts
\* are below 6, a snapshot matchesExpected accepts for the payload of its
\* job; a failed outcome has attempts = 0.
C37_AttemptsOfOutcomes ==
  \A jn \in Published :
    LET o == OutcomeAt(jn)
    IN  /\ o.status = "completed" =>
             /\ o.attempts \in 1..MAX_ATTEMPTS
             /\ o.attempts < MAX_ATTEMPTS =>
                  matchesExpected(o.device, jobs[jn[1]].payload)
        /\ o.status = "failed" => o.attempts = 0
        /\ o.status \in {"completed", "failed"}

\* Two outcomes are in the log: one completed at the 3rd attempt, with a
\* snapshot that matches the payload of its job, and one failed.
C37_Witness ==
  \E a, b \in Published :
    /\ OutcomeAt(a).status = "completed"
    /\ OutcomeAt(a).attempts = 3
    /\ matchesExpected(OutcomeAt(a).device, jobs[a[1]].payload)
    /\ OutcomeAt(b).status = "failed"
    /\ OutcomeAt(b).attempts = 0

====
